---- MODULE Spec2Model ----
(***************************************************************************)
(* Model of the OpenImageDebugger bridge session (src/oidbridge/           *)
(* oid_bridge.cpp): the per-kind receive queues, the read pump, the        *)
(* blocking fetch, the periodic tick, and the viewer side that answers     *)
(* the bridge (src/ui/main_window/message_processing.cpp).                 *)
(*                                                                         *)
(* Symbol names are modelled as positive integers.  A frame on the socket  *)
(* is a record; the stream is a sequence of frames.                        *)
(***************************************************************************)
EXTENDS Integers, Sequences, FiniteSets, TLC

(***************************************************************************)
(* Bounds of the model.                                                    *)
(***************************************************************************)
MaxNames == 2
MaxRequests == 2
MaxPlotRequests == 3
MaxInFlight == 2
MaxBurst == 514
MaxThreads == 2
MaxStringLen == 2
MaxSymbols == 2
MaxShortWrites == 1
MaxFrames == 2

(***************************************************************************)
(* Widths of the fixed-size fields, in bytes.                              *)
(***************************************************************************)
SizeOfMessageType == 4
SizeOfSizeT == 8
SizeOfInt == 4
SizeOfBool == 1

(***************************************************************************)
(* MessageType values used by the protocol.                                *)
(***************************************************************************)
GetObservedSymbols == "GetObservedSymbols"
GetObservedSymbolsResponse == "GetObservedSymbolsResponse"
SetAvailableSymbols == "SetAvailableSymbols"
PlotBufferRequest == "PlotBufferRequest"
PlotBufferContents == "PlotBufferContents"

Names == 1..MaxNames
\* The symbol lists the viewer's image lists can show.
SymLists == {<<>>, <<1>>}

VARIABLES
    client_,            \* QTcpSocket* client_: "null" or "connected"
    received_messages_, \* std::map<MessageType, std::list<UiMessage>>
    pc,                 \* position of the host call: "idle" or "fetch"
    to_viewer,          \* frames written by the bridge, not yet decoded by the viewer
    sockbuf,            \* frames written by the viewer and buffered in client_, not yet read
    plotted,            \* names passed to plot_callback_ by the last tick, in call order
    ret,                \* what the last get_observed_symbols call returned
    req_sent,           \* number of GetObservedSymbols frames sent so far
    plot_sent,          \* number of PlotBufferRequest frames the viewer sent so far
    arrived,            \* per kind: number of frames the pump decoded so far
    seen,               \* per kind: contents decoded so far
    distinct,           \* per kind: no content was decoded twice so far
    last_out,           \* per kind: arrival number of the last message dequeued, 0 if none
    last,               \* what the last host operation did (pump runs, lookups, ...)
    gil,                \* the thread holding the interpreter lock, 0 when it is free
    inside,             \* the threads between PyGILRAII's constructor and destructor
    nested,             \* _py_gil_state of the calls in progress that plot_callback_ made
    entry,              \* the outermost entry-point call in progress, or the last one
    codec,              \* a value, the bytes its encode call site wrote, what was decoded
    composer,           \* a MessageComposer in send(): blocks, position, bytes written
    rx                  \* the bridge's end of the byte stream and the pump reading it

vars == <<client_, received_messages_, pc, to_viewer, sockbuf,
          plotted, ret, req_sent, plot_sent, arrived, seen, distinct, last_out, last,
          gil, inside, nested, entry, codec, composer, rx>>

\* The state of the call gate.
gate == <<gil, inside>>

\* The entry-point calls in progress.
calls == <<nested, entry>>

\* The byte level of the connection.
wire == <<codec, composer, rx>>

\* The session: the fields of OidBridge, the two directions of the socket and
\* the bookkeeping of what the operations did.
session == <<client_, received_messages_, pc, to_viewer, sockbuf,
             plotted, ret, req_sent, plot_sent, arrived, seen, distinct,
             last_out, last>>

Min(a, b) == IF a < b THEN a ELSE b

QueueKinds == {PlotBufferRequest, GetObservedSymbolsResponse}

\* A null unique_ptr<UiMessage>.
NoMsg == [kind |-> "none", buffer_name |-> 0, observed_symbols |-> <<>>,
          seq |-> 0, req |-> 0]

\* The queue stored under a key, empty when the map has no such key.
QueueOf(rm, t) == IF t \in DOMAIN rm THEN rm[t] ELSE <<>>

\* The field the kind's equality predicate compares.
KeyOf(m) == IF m.kind = PlotBufferRequest THEN <<m.buffer_name>>
            ELSE m.observed_symbols

(***************************************************************************)
(* UiMessage::isSame: PlotBufferRequest compares buffer_name,              *)
(* GetObservedSymbolsResponse compares observed_symbols; a failed          *)
(* dynamic_cast gives false.                                               *)
(***************************************************************************)
isSame(m, other) ==
    IF m.kind # other.kind THEN FALSE
    ELSE IF m.kind = PlotBufferRequest THEN m.buffer_name = other.buffer_name
    ELSE m.observed_symbols = other.observed_symbols

\* The switch without its GetObservedSymbolsResponse case.
get_queue_size_limit_NoResponseCase(header) == 512

get_queue_size_limit(header) ==
    IF header = GetObservedSymbolsResponse THEN 1 ELSE 512

\* The trim with pop_back in place of pop_front.
RECURSIVE RemoveObsolete_PopBack(_, _)
RemoveObsolete_PopBack(q, limit) ==
    IF q # <<>> /\ Len(q) > limit
    THEN RemoveObsolete_PopBack(SubSeq(q, 1, Len(q) - 1), limit)
    ELSE q

\* while (!queue.empty() && queue.size() > limit) queue.pop_front();
RECURSIVE RemoveObsolete(_, _)
RemoveObsolete(q, limit) ==
    IF q # <<>> /\ Len(q) > limit THEN RemoveObsolete(Tail(q), limit) ELSE q

\* The insertion without remove_if.
InsertMessage_NoRemove(q, m) ==
    RemoveObsolete(Append(q, m), get_queue_size_limit(m.kind))

\* The insertion with push_front in place of push_back.
InsertMessage_PushFront(q, m) ==
    LET kept == SelectSeq(q, LAMBDA other : ~isSame(m, other))
    IN  RemoveObsolete(<<m>> \o kept, get_queue_size_limit(m.kind))

\* remove_if(isSame); push_back(message); trim to the kind's limit.
InsertMessage(q, m) ==
    LET kept == SelectSeq(q, LAMBDA other : ~isSame(m, other))
    IN  RemoveObsolete(Append(kept, m), get_queue_size_limit(m.kind))

(***************************************************************************)
(* One iteration of the pump's loop on st = [rm, arrived, seen, distinct]: *)
(* decode the frame f and insert it into received_messages_[header].       *)
(***************************************************************************)
PumpOne(st, f) ==
    LET m == [kind |-> f.kind, buffer_name |-> f.buffer_name,
              observed_symbols |-> f.observed_symbols,
              seq |-> st.arrived[f.kind] + 1, req |-> f.req]
        q == InsertMessage(QueueOf(st.rm, f.kind), m)
    IN  [rm |-> [t \in DOMAIN st.rm \cup {f.kind} |->
                    IF t = f.kind THEN q ELSE st.rm[t]],
         arrived |-> [st.arrived EXCEPT ![f.kind] = @ + 1],
         seen |-> [st.seen EXCEPT ![f.kind] = @ \cup {KeyOf(m)}],
         distinct |-> IF KeyOf(m) \in st.seen[f.kind]
                      THEN [st.distinct EXCEPT ![f.kind] = FALSE]
                      ELSE st.distinct]

\* The lookup taking the first non-empty queue of the map instead of the
\* queue of msg_type.
\* try_get_stored_message that looks the queue up with operator[], which
\* makes the queue it does not find.
try_get_stored_message_Creates(rm, msg_type) ==
    LET made == [t \in DOMAIN rm \cup {msg_type} |-> QueueOf(rm, t)]
    IN  IF made[msg_type] = <<>> THEN [msg |-> NoMsg, rm |-> made]
        ELSE [msg |-> Head(made[msg_type]),
              rm |-> [made EXCEPT ![msg_type] = Tail(@)]]

try_get_stored_message_AnyKind(rm, msg_type) ==
    LET t == IF QueueOf(rm, PlotBufferRequest) # <<>> THEN PlotBufferRequest
             ELSE msg_type
    IN  IF t \notin DOMAIN rm THEN [msg |-> NoMsg, rm |-> rm]
        ELSE IF rm[t] = <<>> THEN [msg |-> NoMsg, rm |-> rm]
        ELSE [msg |-> Head(rm[t]), rm |-> [rm EXCEPT ![t] = Tail(@)]]

(***************************************************************************)
(* try_get_stored_message: the head of the kind's queue, removed; null     *)
(* when the map has no such queue or the queue is empty.                   *)
(***************************************************************************)
try_get_stored_message(rm, msg_type) ==
    IF msg_type \notin DOMAIN rm THEN [msg |-> NoMsg, rm |-> rm]
    ELSE IF rm[msg_type] = <<>> THEN [msg |-> NoMsg, rm |-> rm]
    ELSE [msg |-> Head(rm[msg_type]),
          rm |-> [rm EXCEPT ![msg_type] = Tail(@)]]

Ghost == [rm |-> received_messages_, arrived |-> arrived, seen |-> seen,
          distinct |-> distinct]

\* What the host call in progress (or the last one) did so far; timeout
\* tells of a tick that its pump's wait ended with no bytes available.
NoLast ==
    [op |-> "none", pumps |-> 0, lookups |-> 0, timeout |-> FALSE,
     outcome |-> "none", started |-> FALSE]

\* Nothing was encoded, composed or received yet.
NoCodec == [pc |-> "idle"]
NoComposer == [pc |-> "idle"]
NoStream == [pc |-> "none"]

\* No entry point was called yet.
NoEntry ==
    [op |-> "none", exit |-> "none", raised |-> "none", state |-> "UNLOCKED",
     returned |-> TRUE]

Init ==
    /\ client_ = "null"
    /\ received_messages_ = [t \in {} |-> <<>>]
    /\ pc = "idle"
    /\ to_viewer = <<>>
    /\ sockbuf = <<>>
    /\ plotted = <<>>
    /\ ret = [req |-> 0, msg |-> NoMsg]
    /\ req_sent = 0
    /\ plot_sent = 0
    /\ arrived = [t \in QueueKinds |-> 0]
    /\ seen = [t \in QueueKinds |-> {}]
    /\ distinct = [t \in QueueKinds |-> TRUE]
    /\ last_out = [t \in QueueKinds |-> 0]
    /\ last = NoLast
    /\ gil = 0
    /\ inside = {}
    /\ nested = <<>>
    /\ entry = NoEntry
    /\ codec = NoCodec
    /\ composer = NoComposer
    /\ rx = NoStream

(***************************************************************************)
(* OidBridge::start on a session that has no client yet.  server_.listen   *)
(* fails, or waitForNewConnection times out, or a viewer connects in time. *)
(* last.outcome is which of these happened, last.started what start        *)
(* returned.                                                               *)
(***************************************************************************)
StartOutcomes == {"listen_failed", "timeout", "accepted"}

\* wait_for_client that takes the wait's end for a connection.
wait_for_client_Always(client, outcome) == "connected"

\* wait_for_client: client_ after it, server_.nextPendingConnection() being
\* null unless a viewer connected.
wait_for_client(client, outcome) ==
    IF client = "null"
    THEN (IF outcome = "accepted" THEN "connected" ELSE "null")
    ELSE client

\* OidBridge::is_window_ready, running being ui_proc_.isRunning().
is_window_ready(running) ==
    IF client_ = "null" THEN FALSE ELSE running

start ==
    /\ client_ = "null"
    /\ pc = "idle"
    /\ \E outcome \in StartOutcomes :
           LET client == IF outcome = "listen_failed" THEN client_
                         ELSE wait_for_client(client_, outcome)
           IN  /\ client_' = client
               /\ last' = [NoLast EXCEPT !.op = "start", !.outcome = outcome,
                                         !.started = (client # "null")]
    /\ UNCHANGED <<received_messages_, pc, to_viewer, sockbuf,
                   plotted, ret, req_sent, plot_sent, arrived, seen, distinct, last_out>>

\* get_observed_symbols with a fetch_message that pumps before it looks.
get_observed_symbols_PumpsFirst ==
    /\ client_ = "connected"
    /\ pc = "idle"
    /\ req_sent < MaxRequests
    /\ req_sent' = req_sent + 1
    /\ to_viewer' = Append(to_viewer, [kind |-> GetObservedSymbols, req |-> req_sent + 1])
    /\ pc' = "pump"
    /\ last' = [NoLast EXCEPT !.op = "get_observed_symbols", !.pumps = 1,
                                        !.lookups = 1]
    /\ UNCHANGED <<client_, received_messages_, ret, last_out, sockbuf,
                   plotted, plot_sent, arrived, seen, distinct>>

(***************************************************************************)
(* get_observed_symbols up to the first blocking point: the                *)
(* GetObservedSymbols frame is written, fetch_message looks the queue up;  *)
(* on a hit the call returns, on a miss it enters the pump.                *)
(***************************************************************************)
get_observed_symbols ==
    /\ client_ = "connected"
    /\ pc = "idle"
    /\ req_sent < MaxRequests
    /\ req_sent' = req_sent + 1
    /\ to_viewer' = Append(to_viewer, [kind |-> GetObservedSymbols, req |-> req_sent + 1])
    /\ LET result == try_get_stored_message(received_messages_,
                                            GetObservedSymbolsResponse)
       IN  IF result.msg # NoMsg
           THEN /\ received_messages_' = result.rm
                /\ ret' = [req |-> req_sent + 1, msg |-> result.msg]
                /\ last_out' = [last_out EXCEPT ![GetObservedSymbolsResponse] =
                                    result.msg.seq]
                /\ pc' = "idle"
                /\ last' = [NoLast EXCEPT !.op = "get_observed_symbols", !.lookups = 1]
           ELSE /\ pc' = "pump"
                /\ last' = [NoLast EXCEPT !.op = "get_observed_symbols", !.pumps = 1,
                                        !.lookups = 1]
                /\ UNCHANGED <<received_messages_, ret, last_out>>
    /\ UNCHANGED <<client_, sockbuf, plotted, plot_sent,
                   arrived, seen, distinct>>

(***************************************************************************)
(* run_event_loop up to its blocking point: it enters the pump.            *)
(***************************************************************************)
run_event_loop ==
    /\ client_ = "connected"
    /\ pc = "idle"
    /\ pc' = "pump"
    /\ last' = [NoLast EXCEPT !.op = "run_event_loop", !.pumps = 1]
    /\ UNCHANGED <<client_, received_messages_, to_viewer, sockbuf,
                   plotted, ret, req_sent, plot_sent, arrived, seen, distinct, last_out>>

\* Where the caller of the pump continues when the pump returns.
AfterPump == IF last.op = "run_event_loop" THEN "drain" ELSE "lookup"

\* The pump clearing the receive queues when its wait ends with no bytes.
try_read_incoming_messages_timeout_Clears ==
    /\ pc = "pump"
    /\ sockbuf = <<>>
    /\ pc' = AfterPump
    /\ last' = [last EXCEPT !.timeout = (last.op = "run_event_loop")]
    /\ received_messages_' = [t \in DOMAIN received_messages_ |-> <<>>]
    /\ UNCHANGED <<client_, to_viewer, sockbuf,
                   plotted, ret, req_sent, plot_sent, arrived, seen, distinct,
                   last_out>>

(***************************************************************************)
(* try_read_incoming_messages, the wait ends with bytesAvailable() = 0     *)
(* (nothing arrived in time, or the socket is in error or closed): the     *)
(* pump returns without reading.                                           *)
(***************************************************************************)
try_read_incoming_messages_timeout ==
    /\ pc = "pump"
    /\ sockbuf = <<>>
    /\ pc' = AfterPump
    /\ last' = [last EXCEPT !.timeout = (last.op = "run_event_loop")]
    /\ UNCHANGED <<client_, received_messages_, to_viewer, sockbuf,
                   plotted, ret, req_sent, plot_sent, arrived, seen, distinct,
                   last_out>>

(***************************************************************************)
(* try_read_incoming_messages, one iteration of the loop: a frame is read  *)
(* and inserted; the loop goes on while bytesAvailable() > 0.              *)
(***************************************************************************)
try_read_incoming_messages ==
    /\ pc = "pump"
    /\ sockbuf # <<>>
    /\ LET after == PumpOne(Ghost, Head(sockbuf))
       IN  /\ received_messages_' = after.rm
           /\ arrived' = after.arrived
           /\ seen' = after.seen
           /\ distinct' = after.distinct
    /\ sockbuf' = Tail(sockbuf)
    /\ pc' = IF Tail(sockbuf) # <<>> THEN "pump" ELSE AfterPump
    /\ UNCHANGED <<client_, to_viewer, plotted, ret, req_sent,
                   plot_sent, last_out, last>>

\* fetch_message that goes back to the pump until a message is there.
fetch_message_Retries ==
    /\ pc = "lookup"
    /\ LET result == try_get_stored_message(received_messages_,
                                            GetObservedSymbolsResponse)
       IN  IF result.msg = NoMsg
           THEN /\ pc' = "pump"
                /\ last' = [last EXCEPT !.pumps = @ + 1]
                /\ UNCHANGED <<received_messages_, ret, last_out>>
           ELSE /\ received_messages_' = result.rm
                /\ ret' = [req |-> req_sent, msg |-> result.msg]
                /\ last_out' = [last_out EXCEPT ![GetObservedSymbolsResponse] =
                                    result.msg.seq]
                /\ pc' = "idle"
                /\ last' = [last EXCEPT !.lookups = @ + 1]
    /\ UNCHANGED <<client_, to_viewer, sockbuf, plotted, req_sent,
                   plot_sent, arrived, seen, distinct>>

\* fetch_message that, finding nothing after the pump, sends the request
\* once more before it returns.
fetch_message_Resends ==
    /\ pc = "lookup"
    /\ LET result == try_get_stored_message(received_messages_,
                                            GetObservedSymbolsResponse)
           again == result.msg = NoMsg /\ req_sent < MaxRequests
       IN  /\ received_messages_' = result.rm
           /\ req_sent' = IF again THEN req_sent + 1 ELSE req_sent
           /\ to_viewer' = IF again
                           THEN Append(to_viewer, [kind |-> GetObservedSymbols,
                                                   req |-> req_sent + 1])
                           ELSE to_viewer
           /\ ret' = [req |-> req_sent', msg |-> result.msg]
           /\ last_out' = IF result.msg = NoMsg THEN last_out
                          ELSE [last_out EXCEPT ![GetObservedSymbolsResponse] =
                                    result.msg.seq]
    /\ pc' = "idle"
    /\ last' = [last EXCEPT !.lookups = @ + 1]
    /\ UNCHANGED <<client_, sockbuf, plotted, plot_sent, arrived, seen, distinct>>

(***************************************************************************)
(* fetch_message after the pump: the second lookup; get_observed_symbols   *)
(* returns the response's symbols, or nothing.                             *)
(***************************************************************************)
fetch_message ==
    /\ pc = "lookup"
    /\ LET result == try_get_stored_message(received_messages_,
                                            GetObservedSymbolsResponse)
       IN  /\ received_messages_' = result.rm
           /\ ret' = [req |-> req_sent, msg |-> result.msg]
           /\ last_out' = IF result.msg = NoMsg THEN last_out
                          ELSE [last_out EXCEPT ![GetObservedSymbolsResponse] =
                                    result.msg.seq]
    /\ pc' = "idle"
    /\ last' = [last EXCEPT !.lookups = @ + 1]
    /\ UNCHANGED <<client_, to_viewer, sockbuf, plotted, req_sent,
                   plot_sent, arrived, seen, distinct>>

(***************************************************************************)
(* run_event_loop after the pump: try_get_stored_message(PlotBufferRequest)*)
(* until it returns null, calling plot_callback_ with each buffer_name.    *)
(***************************************************************************)
\* The drain with an if in place of the while.
DrainPlotRequests_Once(rm, out) ==
    LET r == try_get_stored_message(rm, PlotBufferRequest)
    IN  IF r.msg = NoMsg THEN [rm |-> rm, out |-> out]
        ELSE [rm |-> r.rm, out |-> Append(out, r.msg)]

RECURSIVE DrainPlotRequests(_, _)
DrainPlotRequests(rm, out) ==
    LET r == try_get_stored_message(rm, PlotBufferRequest)
    IN  IF r.msg = NoMsg THEN [rm |-> rm, out |-> out]
        ELSE DrainPlotRequests(r.rm, Append(out, r.msg))

BufferNames(q) == [i \in 1..Len(q) |-> q[i].buffer_name]

run_event_loop_drain ==
    /\ pc = "drain"
    /\ LET d == DrainPlotRequests(received_messages_, <<>>)
       IN  /\ received_messages_' = d.rm
           /\ plotted' = BufferNames(d.out)
           /\ last_out' = IF d.out = <<>> THEN last_out
                          ELSE [last_out EXCEPT ![PlotBufferRequest] =
                                    d.out[Len(d.out)].seq]
           /\ last' = [last EXCEPT !.lookups = @ + Len(d.out) + 1]
    /\ pc' = "idle"
    /\ UNCHANGED <<client_, to_viewer, sockbuf, ret, req_sent,
                   plot_sent, arrived, seen, distinct>>

\* The viewer's socket accepts another frame.
CanWrite == Len(sockbuf) < MaxInFlight

(***************************************************************************)
(* MainWindow::respond_get_observed_symbols: the frame carrying what       *)
(* prepare_observed_symbols_list() returns at that moment.                 *)
(***************************************************************************)
respond_get_observed_symbols(request, observable_vars) ==
    Append(sockbuf, [kind |-> GetObservedSymbolsResponse, buffer_name |-> 0,
                  observed_symbols |-> observable_vars, req |-> request.req])

(***************************************************************************)
(* MainWindow::decode_incoming_messages: the viewer reads one header and   *)
(* dispatches on it.  lists is what its image lists may show at that time. *)
(***************************************************************************)
decode_incoming_messages(lists) ==
    /\ to_viewer # <<>>
    /\ CanWrite
    /\ LET header == Head(to_viewer)
       IN  IF header.kind = GetObservedSymbols
           THEN \E l \in lists : sockbuf' = respond_get_observed_symbols(header, l)
           ELSE sockbuf' = sockbuf
    /\ to_viewer' = Tail(to_viewer)
    /\ UNCHANGED <<client_, received_messages_, pc, plotted,
                   ret, req_sent, plot_sent, arrived, seen, distinct, last_out, last>>

ViewerLoop == decode_incoming_messages(SymLists)

\* During a burst the image lists show nothing or the first requested symbol.
ViewerLoopBurst == decode_incoming_messages({<<>>, <<1>>})

(***************************************************************************)
(* MainWindow::request_plot_buffer: the viewer asks for a symbol's buffer. *)
(***************************************************************************)
request_plot_buffer(buffer_name_str) ==
    /\ client_ = "connected"
    /\ CanWrite
    /\ sockbuf' = Append(sockbuf, [kind |-> PlotBufferRequest,
                                   buffer_name |-> buffer_name_str,
                                   observed_symbols |-> <<>>, req |-> 0])
    /\ plot_sent' = plot_sent + 1
    /\ UNCHANGED <<client_, received_messages_, pc, to_viewer,
                   plotted, ret, req_sent, arrived, seen, distinct, last_out, last>>

\* The user requests one of a few symbols.
UserRequestsPlot ==
    /\ plot_sent < MaxPlotRequests
    /\ \E n \in Names : request_plot_buffer(n)

\* The user keeps requesting symbols not requested before.
UserRequestsFreshPlot ==
    /\ plot_sent < MaxBurst
    /\ request_plot_buffer(plot_sent + 1)

(***************************************************************************)
(* One host thread calls the entry points one after the other.             *)
(***************************************************************************)
Next ==
    \/ start /\ UNCHANGED <<gate, calls, wire>>
    \/ get_observed_symbols /\ UNCHANGED <<gate, calls, wire>>
    \/ run_event_loop /\ UNCHANGED <<gate, calls, wire>>
    \/ try_read_incoming_messages_timeout /\ UNCHANGED <<gate, calls, wire>>
    \/ try_read_incoming_messages /\ UNCHANGED <<gate, calls, wire>>
    \/ fetch_message /\ UNCHANGED <<gate, calls, wire>>
    \/ run_event_loop_drain /\ UNCHANGED <<gate, calls, wire>>
    \/ ViewerLoop /\ UNCHANGED <<gate, calls, wire>>
    \/ UserRequestsPlot /\ UNCHANGED <<gate, calls, wire>>

Spec == Init /\ [][Next]_vars

(***************************************************************************)
(* A burst of requests for pairwise distinct symbols with no tick between  *)
(* them: the PlotBufferRequest queue grows to its limit.                   *)
(***************************************************************************)
NextBurst ==
    \/ start /\ UNCHANGED <<gate, calls, wire>>
    \/ get_observed_symbols /\ UNCHANGED <<gate, calls, wire>>
    \/ try_read_incoming_messages_timeout /\ UNCHANGED <<gate, calls, wire>>
    \/ try_read_incoming_messages /\ UNCHANGED <<gate, calls, wire>>
    \/ fetch_message /\ UNCHANGED <<gate, calls, wire>>
    \/ ViewerLoopBurst /\ UNCHANGED <<gate, calls, wire>>
    \/ UserRequestsFreshPlot /\ UNCHANGED <<gate, calls, wire>>

SpecBurst == Init /\ [][NextBurst]_vars

(***************************************************************************)
(* Several host threads call the oid_* entry points.  Each entry point     *)
(* constructs a PyGILRAII first (PyGILState_Ensure) and destroys it when   *)
(* it returns (PyGILState_Release).                                        *)
(***************************************************************************)
Threads == 1..MaxThreads

\* An entry point that does not wait for the lock.
PyGILState_Ensure_NoWait(t) == TRUE

\* PyGILState_Ensure returns to thread t once no other thread holds the lock.
PyGILState_Ensure(t) == gil = 0 \/ gil = t

\* PyGILRAII's constructor at the top of an entry point, then the entry
\* point's call into the session up to its first blocking point.
EnterEntryPoint(t, body) ==
    /\ t \notin inside
    /\ PyGILState_Ensure(t)
    /\ gil' = t
    /\ inside' = inside \cup {t}
    /\ body

\* The thread inside an entry point goes on with the session's operation.
ContinueEntryPoint(t, body) ==
    /\ t \in inside
    /\ gil = t
    /\ body
    /\ UNCHANGED gate

\* The entry point returns: PyGILRAII's destructor releases the lock.
LeaveEntryPoint(t) ==
    /\ t \in inside
    /\ pc = "idle"
    /\ gil' = 0
    /\ inside' = inside \ {t}
    /\ UNCHANGED <<client_, received_messages_, pc, to_viewer, sockbuf,
                   plotted, ret, req_sent, plot_sent, arrived, seen, distinct,
                   last_out, last>>

oid_exec(t) == EnterEntryPoint(t, start)
oid_get_observed_buffers(t) == EnterEntryPoint(t, get_observed_symbols)
oid_run_event_loop(t) == EnterEntryPoint(t, run_event_loop)

NextGate ==
    \/ (\E t \in Threads : oid_exec(t)) /\ UNCHANGED <<calls, wire>>
    \/ (\E t \in Threads : oid_get_observed_buffers(t)) /\ UNCHANGED <<calls, wire>>
    \/ (\E t \in Threads : oid_run_event_loop(t)) /\ UNCHANGED <<calls, wire>>
    \/ (\E t \in Threads : ContinueEntryPoint(t, try_read_incoming_messages_timeout)) /\ UNCHANGED <<calls, wire>>
    \/ (\E t \in Threads : ContinueEntryPoint(t, try_read_incoming_messages)) /\ UNCHANGED <<calls, wire>>
    \/ (\E t \in Threads : ContinueEntryPoint(t, fetch_message)) /\ UNCHANGED <<calls, wire>>
    \/ (\E t \in Threads : ContinueEntryPoint(t, run_event_loop_drain)) /\ UNCHANGED <<calls, wire>>
    \/ (\E t \in Threads : LeaveEntryPoint(t)) /\ UNCHANGED <<calls, wire>>
    \/ ViewerLoop /\ UNCHANGED <<gate, calls, wire>>
    \/ UserRequestsPlot /\ UNCHANGED <<gate, calls, wire>>

SpecGate == Init /\ [][NextGate]_vars

(***************************************************************************)
(* All entry points with all their exit paths, and the tick's drain split  *)
(* around plot_callback_, which is code of the host: it may return, or     *)
(* call an entry point of the session before it returns.                   *)
(***************************************************************************)
\* The entry points that take the session's handle.
HandleEntryPoints ==
    {"oid_log_message", "oid_cleanup", "oid_exec", "oid_is_window_ready",
     "oid_get_observed_buffers", "oid_set_available_symbols",
     "oid_run_event_loop", "oid_plot_buffer"}

\* The early returns of oid_plot_buffer's validation of buffer_metadata.
PlotBufferChecks ==
    {"not_a_dict", "field_check", "no_pointer", "null_pointer", "short_buffer"}

\* The handle the host passes: null, or the one oid_initialize returned.
Handles == {"null", "app"}

\* The calls that, given the session's handle, return without touching
\* the session: op and exit path.
SimpleCalls ==
    {<<"oid_plot_buffer", e>> : e \in PlotBufferChecks}
        \cup {<<"oid_log_message", "normal">>,
              <<"oid_is_window_ready", "normal">>}

\* The exit paths of oid_initialize, which takes no handle.
InitializeCalls == {"invalid_parameters", "normal"}

\* The exception each early return raises.
RAISE_PY_EXCEPTION(exit) ==
    CASE exit = "normal" -> "none"
      [] exit = "null_handle" -> "PyExc_RuntimeError"
      [] exit = "field_check" -> "CHECK_FIELD"
      [] OTHER -> "PyExc_TypeError"

\* What PyGILState_Ensure returns: whether the thread held the lock before.
PyGILState_Ensure_State(t) == IF gil = t THEN "LOCKED" ELSE "UNLOCKED"

\* A release that leaves the lock with the thread.
PyGILState_Release_Keeps(t, state) == t

\* The holder of the lock after PyGILState_Release(state) by thread t.
PyGILState_Release(t, state) == IF state = "UNLOCKED" THEN 0 ELSE t

\* An entry point is called by the host: PyGILRAII's constructor, then the body.
CallEntryPoint(t, op, exit, body) ==
    /\ nested = <<>>
    /\ EnterEntryPoint(t, body)
    /\ entry' = [op |-> op, exit |-> exit, raised |-> RAISE_PY_EXCEPTION(exit),
                 state |-> PyGILState_Ensure_State(t), returned |-> FALSE]
    /\ UNCHANGED nested

\* An entry point that goes on with a null handle.
WithHandle_Unchecked(handler, body) == body

\* if (app == nullptr) { log; RAISE_PY_EXCEPTION; return; } then the body.
WithHandle(handler, body) ==
    IF handler = "null" THEN UNCHANGED session ELSE body

\* An entry point that takes the session's handle is called by the host.
CallWithHandle(t, handler, op, exit, body) ==
    CallEntryPoint(t, op, IF handler = "null" THEN "null_handle" ELSE exit,
                   WithHandle(handler, body))

\* The entry point returns on whatever path: PyGILRAII's destructor runs.
ReturnFromEntryPoint(t) ==
    /\ t \in inside
    /\ pc = "idle"
    /\ nested = <<>>
    /\ gil' = PyGILState_Release(t, entry.state)
    /\ inside' = inside \ {t}
    /\ entry' = [entry EXCEPT !.returned = TRUE]
    /\ UNCHANGED <<session, nested>>

\* The bridge's socket accepts another frame.
CanSend == Len(to_viewer) < MaxInFlight

(***************************************************************************)
(* OidBridge::set_available_symbols and OidBridge::plot_buffer: one frame  *)
(* is written to the viewer.                                               *)
(***************************************************************************)
set_available_symbols ==
    /\ client_ = "connected"
    /\ pc = "idle"
    /\ CanSend
    /\ to_viewer' = Append(to_viewer, [kind |-> SetAvailableSymbols, req |-> 0])
    /\ UNCHANGED <<client_, received_messages_, pc, sockbuf, plotted, ret,
                   req_sent, plot_sent, arrived, seen, distinct, last_out, last>>

plot_buffer ==
    /\ client_ = "connected"
    /\ CanSend
    /\ to_viewer' = Append(to_viewer, [kind |-> PlotBufferContents, req |-> 0])
    /\ UNCHANGED <<client_, received_messages_, pc, sockbuf, plotted, ret,
                   req_sent, plot_sent, arrived, seen, distinct, last_out, last>>

(***************************************************************************)
(* run_event_loop after the pump, one turn of its while loop: the lookup,  *)
(* and on a hit the call of plot_callback_ with the request's name.        *)
(***************************************************************************)
run_event_loop_next_request ==
    /\ pc = "drain"
    /\ LET r == try_get_stored_message(received_messages_, PlotBufferRequest)
           before == IF last.lookups = 0 THEN <<>> ELSE plotted
       IN  IF r.msg = NoMsg
           THEN /\ pc' = "idle"
                /\ plotted' = before
                /\ UNCHANGED <<received_messages_, last_out>>
           ELSE /\ pc' = "callback"
                /\ plotted' = Append(before, r.msg.buffer_name)
                /\ received_messages_' = r.rm
                /\ last_out' = [last_out EXCEPT ![PlotBufferRequest] = r.msg.seq]
    /\ last' = [last EXCEPT !.lookups = @ + 1]
    /\ UNCHANGED <<client_, to_viewer, sockbuf, ret, req_sent,
                   plot_sent, arrived, seen, distinct>>

\* plot_callback_ returns to the while loop.
plot_callback_returns ==
    /\ pc = "callback"
    /\ nested = <<>>
    /\ pc' = "drain"
    /\ UNCHANGED <<client_, received_messages_, to_viewer, sockbuf, plotted, ret,
                   req_sent, plot_sent, arrived, seen, distinct, last_out, last>>

\* plot_callback_ calls oid_plot_buffer on the thread that runs the tick:
\* PyGILState_Ensure returns at once, the frame is sent.
plot_callback_calls_oid_plot_buffer(t) ==
    /\ pc = "callback"
    /\ t \in inside
    /\ nested = <<>>
    /\ PyGILState_Ensure(t)
    /\ nested' = Append(nested, PyGILState_Ensure_State(t))
    /\ plot_buffer
    /\ UNCHANGED <<gate, entry>>

\* The call made by plot_callback_ returns: PyGILRAII's destructor runs.
plot_callback_call_returns(t) ==
    /\ pc = "callback"
    /\ t \in inside
    /\ nested # <<>>
    /\ gil' = PyGILState_Release(t, nested[Len(nested)])
    /\ nested' = SubSeq(nested, 1, Len(nested) - 1)
    /\ UNCHANGED <<session, inside, entry>>

\* The image lists show nothing; the user asks for one symbol.
ViewerLoopEntry == decode_incoming_messages({<<>>})

NextEntry ==
    \/ (\E t \in Threads : \E c \in InitializeCalls :
           CallEntryPoint(t, "oid_initialize", c, UNCHANGED session)) /\ UNCHANGED wire
    \/ (\E t \in Threads : \E h \in Handles : \E c \in SimpleCalls :
           CallWithHandle(t, h, c[1], c[2], UNCHANGED session)) /\ UNCHANGED wire
    \/ (\E t \in Threads : CallWithHandle(t, "null", "oid_cleanup", "normal",
                                          UNCHANGED session))
           /\ UNCHANGED wire
    \/ (\E t \in Threads : \E h \in Handles :
           CallWithHandle(t, h, "oid_exec", "normal", start))
           /\ UNCHANGED wire
    \/ (\E t \in Threads : \E h \in Handles :
           CallWithHandle(t, h, "oid_get_observed_buffers", "normal",
                          get_observed_symbols))
           /\ UNCHANGED wire
    \/ (\E t \in Threads : \E h \in Handles :
           CallWithHandle(t, h, "oid_set_available_symbols", "normal",
                          set_available_symbols))
           /\ UNCHANGED wire
    \/ (\E t \in Threads : \E h \in Handles :
           CallWithHandle(t, h, "oid_run_event_loop", "normal", run_event_loop))
           /\ UNCHANGED wire
    \/ (\E t \in Threads : \E h \in Handles :
           CallWithHandle(t, h, "oid_plot_buffer", "normal",
                          plot_buffer /\ pc = "idle"))
           /\ UNCHANGED wire
    \/ (\E t \in Threads : ContinueEntryPoint(t, try_read_incoming_messages_timeout))
           /\ UNCHANGED <<calls, wire>>
    \/ (\E t \in Threads : ContinueEntryPoint(t, try_read_incoming_messages))
           /\ UNCHANGED <<calls, wire>>
    \/ (\E t \in Threads : ContinueEntryPoint(t, fetch_message)) /\ UNCHANGED <<calls, wire>>
    \/ (\E t \in Threads : ContinueEntryPoint(t, run_event_loop_drain))
           /\ UNCHANGED <<calls, wire>>
    \/ (\E t \in Threads : ReturnFromEntryPoint(t)) /\ UNCHANGED wire
    \/ ViewerLoopEntry /\ UNCHANGED <<gate, calls, wire>>

SpecEntry == Init /\ [][NextEntry]_vars

(***************************************************************************)
(* The same entry points, called at any time: the entry points test the    *)
(* handle, not client_, so the host can call an operation of OidBridge     *)
(* before oid_exec or after a start() that accepted no client.             *)
(* get_observed_symbols, set_available_symbols and, through run_event_loop,*)
(* try_read_incoming_messages begin with assert(client_ != nullptr);       *)
(* plot_buffer has no assert and hands client_ to MessageComposer, whose   *)
(* send() calls write() on it.  With NDEBUG the asserts are no code and    *)
(* the operation goes on to use the null client_.                          *)
(***************************************************************************)
\* The two ways the bridge is built.
Builds == {"assert", "NDEBUG"}

\* The entry points whose operation uses client_.
ClientEntryPoints ==
    {"oid_get_observed_buffers", "oid_set_available_symbols",
     "oid_run_event_loop", "oid_plot_buffer"}

\* Whether the operation begins with assert(client_ != nullptr).
AssertsClient(op) == op # "oid_plot_buffer"

\* The operation of entry point op, run while client_ is null.
operation_without_client(op, build) ==
    /\ client_ = "null"
    /\ pc = "idle"
    /\ pc' = IF AssertsClient(op) /\ build = "assert" THEN "assert_failed"
             ELSE "null_client_used"
    /\ UNCHANGED <<client_, received_messages_, to_viewer, sockbuf, plotted, ret,
                   req_sent, plot_sent, arrived, seen, distinct, last_out, last>>

NextAnytime ==
    \/ NextEntry
    \/ (\E t \in Threads : \E op \in ClientEntryPoints : \E build \in Builds :
           CallWithHandle(t, "app", op, "normal",
                          operation_without_client(op, build)))
           /\ UNCHANGED wire

SpecAnytime == Init /\ [][NextAnytime]_vars

(***************************************************************************)
(* The tick with a plot_callback_ that may call oid_plot_buffer.           *)
(***************************************************************************)
NextCallback ==
    \/ (\E t \in Threads : CallEntryPoint(t, "oid_exec", "normal",
                                          start))
           /\ UNCHANGED wire
    \/ (\E t \in Threads : CallEntryPoint(t, "oid_run_event_loop", "normal",
                                          run_event_loop))
           /\ UNCHANGED wire
    \/ (\E t \in Threads : ContinueEntryPoint(t, try_read_incoming_messages_timeout))
           /\ UNCHANGED <<calls, wire>>
    \/ (\E t \in Threads : ContinueEntryPoint(t, try_read_incoming_messages))
           /\ UNCHANGED <<calls, wire>>
    \/ (\E t \in Threads : ContinueEntryPoint(t, run_event_loop_next_request))
           /\ UNCHANGED <<calls, wire>>
    \/ (\E t \in Threads : ContinueEntryPoint(t, plot_callback_returns))
           /\ UNCHANGED <<calls, wire>>
    \/ (\E t \in Threads : plot_callback_calls_oid_plot_buffer(t)) /\ UNCHANGED wire
    \/ (\E t \in Threads : plot_callback_call_returns(t)) /\ UNCHANGED wire
    \/ (\E t \in Threads : ReturnFromEntryPoint(t)) /\ UNCHANGED wire
    \/ ViewerLoopEntry /\ UNCHANGED <<gate, calls, wire>>
    \/ UserRequestsPlot /\ UNCHANGED <<gate, calls, wire>>

SpecCallback == Init /\ [][NextCallback]_vars

(***************************************************************************)
(* The byte encoding of frames: MessageComposer's push overloads, the      *)
(* call sites that build each kind of frame, MessageDecoder's read         *)
(* overloads and the call sites that decode each kind.  A byte is a        *)
(* number in 0..255; a block, a string and a stream are sequences of       *)
(* bytes.                                                                 *)
(***************************************************************************)
\* The characters symbol names are made of here: NUL and 'a'.
Chars == {0, 97}
Strings == UNION {[1..n -> Chars] : n \in 0..MaxStringLen}
SymbolLists == UNION {[1..n -> Strings] : n \in 0..MaxSymbols}

\* A size too large to be satisfied by any stream considered here.
Huge == 16777216

\* enum class MessageType as a number.
MessageTypeCode(k) ==
    CASE k = GetObservedSymbols -> 0
      [] k = GetObservedSymbolsResponse -> 1
      [] k = SetAvailableSymbols -> 2
      [] k = PlotBufferContents -> 3
      [] k = PlotBufferRequest -> 4

\* PrimitiveBlock<Primitive>: the value's bytes in memory, low byte first.
PrimitiveBlock(value, size) ==
    [i \in 1..size |-> IF i <= 4 THEN (value \div (256 ^ (i - 1))) % 256
                       ELSE IF value < 0 THEN 255 ELSE 0]

\* StringBlock and BufferBlock: the bytes themselves.
StringBlock(value) == value

\* push(const PrimitiveType&): one block is appended.
push(message_blocks, value, size) ==
    Append(message_blocks, PrimitiveBlock(value, size))

\* push<std::string>: push(value.size()), then the StringBlock.
push_string(message_blocks, value) ==
    Append(push(message_blocks, Len(value), SizeOfSizeT), StringBlock(value))

\* push<std::deque<std::string>>: push(container.size()), then each string.
RECURSIVE push_strings(_, _)
push_strings(message_blocks, container) ==
    IF container = <<>> THEN message_blocks
    ELSE push_strings(push_string(message_blocks, Head(container)), Tail(container))

push_deque(message_blocks, container) ==
    push_strings(push(message_blocks, Len(container), SizeOfSizeT), container)

\* push(uint8_t* buffer, size_t size): push(size), then the BufferBlock.
push_buffer(message_blocks, buffer) ==
    Append(push(message_blocks, Len(buffer), SizeOfSizeT), StringBlock(buffer))

\* The blocks each send operation pushes before it calls send().
get_observed_symbols_blocks ==
    push(<<>>, MessageTypeCode(GetObservedSymbols), SizeOfMessageType)

set_available_symbols_blocks(available_vars) ==
    push_deque(push(<<>>, MessageTypeCode(SetAvailableSymbols), SizeOfMessageType),
               available_vars)

plot_buffer_blocks(p) ==
    LET b0 == push(<<>>, MessageTypeCode(PlotBufferContents), SizeOfMessageType)
        b1 == push_string(b0, p.variable_name)
        b2 == push_string(b1, p.display_name)
        b3 == push_string(b2, p.pixel_layout)
        b4 == push(b3, IF p.transpose_buffer THEN 1 ELSE 0, SizeOfBool)
        b5 == push(b4, p.buff_width, SizeOfInt)
        b6 == push(b5, p.buff_height, SizeOfInt)
        b7 == push(b6, p.buff_channels, SizeOfInt)
        b8 == push(b7, p.buff_stride, SizeOfInt)
        b9 == push(b8, p.buff_type, SizeOfInt)
    IN  push_buffer(b9, p.buff_contents)

respond_get_observed_symbols_blocks(observable_vars) ==
    push_strings(push(push(<<>>, MessageTypeCode(GetObservedSymbolsResponse),
                           SizeOfMessageType),
                      Len(observable_vars), SizeOfSizeT),
                 observable_vars)

\* request_plot_buffer with the name pushed before the MessageType.
request_plot_buffer_blocks_NameFirst(buffer_name_str) ==
    push(push_string(<<>>, buffer_name_str),
         MessageTypeCode(PlotBufferRequest), SizeOfMessageType)

request_plot_buffer_blocks(buffer_name_str) ==
    push_string(push(<<>>, MessageTypeCode(PlotBufferRequest), SizeOfMessageType),
                buffer_name_str)

\* The blocks of the frame that carries the value p.
BlocksOf(p) ==
    CASE p.kind = GetObservedSymbols -> get_observed_symbols_blocks
      [] p.kind = SetAvailableSymbols -> set_available_symbols_blocks(p.available_vars)
      [] p.kind = PlotBufferContents -> plot_buffer_blocks(p)
      [] p.kind = GetObservedSymbolsResponse ->
             respond_get_observed_symbols_blocks(p.observed_symbols)
      [] p.kind = PlotBufferRequest -> request_plot_buffer_blocks(p.buffer_name)

\* The blocks one after the other: what a send that writes every block whole
\* puts on the wire.
RECURSIVE Flatten(_)
Flatten(message_blocks) ==
    IF message_blocks = <<>> THEN <<>>
    ELSE Head(message_blocks) \o Flatten(Tail(message_blocks))

(***************************************************************************)
(* MessageDecoder on a stream that holds the whole frame: each read takes  *)
(* the position in the stream and gives the value and the position after   *)
(* it.                                                                     *)
(***************************************************************************)
\* A size_t from its bytes; sizes beyond three bytes are all Huge here.
ToSize(b) ==
    IF \E i \in 4..Len(b) : b[i] # 0 THEN Huge
    ELSE b[1] + 256 * b[2] + 65536 * b[3]

\* An int from its four bytes.
ToInt(b) ==
    b[1] + 256 * b[2] + 65536 * b[3]
        + 16777216 * (IF b[4] >= 128 THEN b[4] - 256 ELSE b[4])

\* read(PrimitiveType&): sizeof(PrimitiveType) bytes.
read(bytes, pos, size) ==
    [value |-> SubSeq(bytes, pos, pos + size - 1), pos |-> pos + size]

read_size_t(bytes, pos) ==
    [value |-> ToSize(read(bytes, pos, SizeOfSizeT).value), pos |-> pos + SizeOfSizeT]

read_int(bytes, pos) ==
    [value |-> ToInt(read(bytes, pos, SizeOfInt).value), pos |-> pos + SizeOfInt]

read_bool(bytes, pos) ==
    [value |-> read(bytes, pos, SizeOfBool).value[1] # 0, pos |-> pos + SizeOfBool]

\* read<std::string> and read<std::vector<uint8_t>>: the length, then that
\* many bytes into the resized destination.
read_string(bytes, pos) ==
    LET symbol_length == read_size_t(bytes, pos)
    IN  read(bytes, symbol_length.pos, symbol_length.value)

\* QString(const char*): the characters before the first NUL.
RECURSIVE QString(_)
QString(temp_string) ==
    IF temp_string = <<>> \/ Head(temp_string) = 0 THEN <<>>
    ELSE <<Head(temp_string)>> \o QString(Tail(temp_string))

\* read<QString>: the length, that many bytes into a NUL-terminated
\* temporary, then QString(temp_string.data()).
read_QString(bytes, pos) ==
    LET r == read_string(bytes, pos)
    IN  [value |-> QString(r.value), pos |-> r.pos]

\* read<StringContainer, StringType>: the count, then that many strings,
\* each pushed at the back of symbol_container.
RECURSIVE read_symbols(_, _, _, _, _)
read_symbols(bytes, pos, number_symbols, symbol_container, qt) ==
    IF number_symbols = 0 THEN [value |-> symbol_container, pos |-> pos]
    ELSE LET symbol_value == IF qt THEN read_QString(bytes, pos)
                             ELSE read_string(bytes, pos)
         IN  read_symbols(bytes, symbol_value.pos, number_symbols - 1,
                          Append(symbol_container, symbol_value.value), qt)

read_container(bytes, pos, symbol_container, qt) ==
    LET number_symbols == read_size_t(bytes, pos)
    IN  read_symbols(bytes, number_symbols.pos, number_symbols.value,
                     symbol_container, qt)

\* The bridge's decoders of a frame's body, which starts at pos.
decode_plot_buffer_request(bytes, pos) ==
    LET buffer_name == read_string(bytes, pos)
    IN  [value |-> [kind |-> PlotBufferRequest, buffer_name |-> buffer_name.value],
         pos |-> buffer_name.pos]

decode_get_observed_symbols_response(bytes, pos) ==
    LET observed_symbols == read_container(bytes, pos, <<>>, FALSE)
    IN  [value |-> [kind |-> GetObservedSymbolsResponse,
                    observed_symbols |-> observed_symbols.value],
         pos |-> observed_symbols.pos]

\* The viewer's decoders.  available_vars_ is what the list held before.
decode_set_available_symbols(bytes, pos, available_vars_) ==
    LET r == read_container(bytes, pos, available_vars_, TRUE)
    IN  [value |-> [kind |-> SetAvailableSymbols, available_vars |-> r.value],
         pos |-> r.pos]

decode_plot_buffer_contents(bytes, pos) ==
    LET variable_name_str == read_string(bytes, pos)
        display_name_str == read_string(bytes, variable_name_str.pos)
        pixel_layout_str == read_string(bytes, display_name_str.pos)
        transpose_buffer == read_bool(bytes, pixel_layout_str.pos)
        buff_width == read_int(bytes, transpose_buffer.pos)
        buff_height == read_int(bytes, buff_width.pos)
        buff_channels == read_int(bytes, buff_height.pos)
        buff_stride == read_int(bytes, buff_channels.pos)
        buff_type == read_int(bytes, buff_stride.pos)
        buff_contents == read_string(bytes, buff_type.pos)
    IN  [value |-> [kind |-> PlotBufferContents,
                    variable_name |-> variable_name_str.value,
                    display_name |-> display_name_str.value,
                    pixel_layout |-> pixel_layout_str.value,
                    transpose_buffer |-> transpose_buffer.value,
                    buff_width |-> buff_width.value,
                    buff_height |-> buff_height.value,
                    buff_channels |-> buff_channels.value,
                    buff_stride |-> buff_stride.value,
                    buff_type |-> buff_type.value,
                    buff_contents |-> buff_contents.value],
         pos |-> buff_contents.pos]

\* The kind whose code the four bytes of a header are; a code that is no
\* kind's is a MessageType value of its own, "Unknown" followed by the code.
HeaderKind(b) ==
    LET code == ToInt(b)
        kinds == {k \in {GetObservedSymbols, GetObservedSymbolsResponse,
                         SetAvailableSymbols, PlotBufferContents,
                         PlotBufferRequest} : MessageTypeCode(k) = code}
    IN  IF kinds = {} THEN "Unknown" \o ToString(code) ELSE CHOOSE k \in kinds : TRUE

\* The receiving call site of each kind: the header, then the switch in the
\* bridge's pump or in the viewer's decode_incoming_messages.
DecodeFrame(bytes) ==
    LET header == HeaderKind(read(bytes, 1, SizeOfMessageType).value)
        body == SizeOfMessageType + 1
    IN  CASE header = PlotBufferRequest -> decode_plot_buffer_request(bytes, body)
          [] header = GetObservedSymbolsResponse ->
                 decode_get_observed_symbols_response(bytes, body)
          [] header = SetAvailableSymbols ->
                 decode_set_available_symbols(bytes, body, <<>>)
          [] header = PlotBufferContents -> decode_plot_buffer_contents(bytes, body)
          [] OTHER -> [value |-> [kind |-> header], pos |-> body]

(***************************************************************************)
(* A value is encoded by its kind's sending call site and the bytes are    *)
(* decoded by the kind's receiving call site.                              *)
(***************************************************************************)
PlotBufferPayloads ==
    [kind : {PlotBufferContents}, variable_name : Strings,
     display_name : {<<>>, <<97>>}, pixel_layout : {<<97>>},
     transpose_buffer : BOOLEAN, buff_width : {2}, buff_height : {-1, 2},
     buff_channels : {1}, buff_stride : {2}, buff_type : {0, 5},
     buff_contents : Strings]

Payloads ==
    {[kind |-> GetObservedSymbols]}
        \cup [kind : {GetObservedSymbolsResponse}, observed_symbols : SymbolLists]
        \cup [kind : {SetAvailableSymbols}, available_vars : SymbolLists]
        \cup [kind : {PlotBufferRequest}, buffer_name : Strings]
        \cup PlotBufferPayloads

EncodeAtCallSite ==
    /\ codec.pc = "idle"
    /\ \E p \in Payloads :
           codec' = [pc |-> "sent", value |-> p, bytes |-> Flatten(BlocksOf(p))]
    /\ UNCHANGED <<session, gate, calls, composer, rx>>

DecodeAtCallSite ==
    /\ codec.pc = "sent"
    /\ LET d == DecodeFrame(codec.bytes)
       IN  codec' = [pc |-> "received", value |-> codec.value, bytes |-> codec.bytes,
                     decoded |-> d.value, consumed |-> d.pos - 1]
    /\ UNCHANGED <<session, gate, calls, composer, rx>>

NextCodec ==
    \/ EncodeAtCallSite
    \/ DecodeAtCallSite

SpecCodec == Init /\ [][NextCodec]_vars

(***************************************************************************)
(* The viewer's end, one pass of MainWindow::loop at a time.  The bridge   *)
(* sends one frame and the viewer's next pass decodes it.  codec is then   *)
(* [pc, value, bytes, header, decoded, viewer, since]: value is what the   *)
(* bridge sent, header the kind the last pass read ("none" if the pass     *)
(* found no bytes), decoded the locals of the decode function, viewer the  *)
(* MainWindow fields [available_vars_, held_buffers_, stages_,             *)
(* loaded_vars_] and since the variable names of the PlotBufferContents    *)
(* frames sent and decoded after the last SetAvailableSymbols frame.       *)
(***************************************************************************)
\* enum class BufferType: the code of the 64 bit floating point elements.
Float64 == 6

\* The element types of the buffers sent to the viewer.
ViewerTypes == {0, 5, Float64}

\* The contents of the buffers sent to the viewer.
ViewerContents == {<<>>, <<97, 0>>, <<0, 0, 0, 0, 0, 0, 240, 63>>}

\* The frames the bridge sends to the viewer.
\* The names and the lists of names sent to the viewer.
ViewerNames == {<<97>>, <<97, 0>>}
ViewerLists == UNION {[1..n -> ViewerNames \cup {<<>>}] : n \in 0..MaxSymbols}

ViewerPlots ==
    [kind : {PlotBufferContents}, variable_name : ViewerNames,
     display_name : {<<97>>}, pixel_layout : {<<97>>},
     transpose_buffer : BOOLEAN, buff_width : {2}, buff_height : {3},
     buff_channels : {1}, buff_stride : {2, -1}, buff_type : ViewerTypes,
     buff_contents : ViewerContents]

ViewerPayloads ==
    {[kind |-> GetObservedSymbols]}
        \cup [kind : {SetAvailableSymbols}, available_vars : ViewerLists]
        \cup ViewerPlots

\* MainWindow after construction.
NoViewer ==
    [available_vars_ |-> <<>>, held_buffers_ |-> <<>>, stages_ |-> <<>>,
     loaded_vars_ |-> {}]

ViewerOf(c) == IF c.pc = "idle" THEN NoViewer ELSE c.viewer

\* std::map's operator[] followed by an assignment.
Assign(map, key, value) ==
    [k \in DOMAIN map \cup {key} |-> IF k = key THEN value ELSE map[k]]

\* make_float_buffer_from_double: the buffer narrowed to 32 bit elements.
make_float_buffer_from_double(buff_double) ==
    [narrowed |-> buff_double]

\* OidBridge::set_available_symbols, OidBridge::plot_buffer or
\* OidBridge::get_observed_symbols' send: the frame is in the viewer's socket.
bridge_sends ==
    /\ codec.pc \in {"idle", "loop"}
    /\ \E p \in ViewerPayloads :
           codec' = [pc |-> "buffered", value |-> p, bytes |-> Flatten(BlocksOf(p)),
                     header |-> "none", decoded |-> NoMsg,
                     viewer |-> ViewerOf(codec),
                     since |-> IF codec.pc = "idle" THEN {} ELSE codec.since]
    /\ UNCHANGED <<session, gate, calls, composer, rx>>

\* MainWindow::decode_set_available_symbols on the body at pos.
viewer_set_available_symbols(viewer, bytes, pos) ==
    decode_set_available_symbols(bytes, pos, viewer.available_vars_)

\* decode_set_available_symbols that leaves loaded_vars_ as it is.
viewer_available_symbols_read_KeepsLoaded(viewer, available_vars) ==
    [viewer EXCEPT !.available_vars_ = available_vars]

\* MainWindow::decode_set_available_symbols' effect on the fields, given the
\* list it read: no variable is synchronised any more.
viewer_available_symbols_read(viewer, available_vars) ==
    [viewer EXCEPT !.available_vars_ = available_vars, !.loaded_vars_ = {}]

\* decode_plot_buffer_contents with the dimensions never exchanged.
viewer_plot_buffer_contents_NoSwap(viewer, d) ==
    [viewer EXCEPT
        !.held_buffers_ = Assign(@, d.variable_name, d.buff_contents),
        !.stages_ = Assign(@, d.variable_name,
                           [visualized_width |-> d.buff_width,
                            visualized_height |-> d.buff_height]),
        !.loaded_vars_ = @ \cup {d.variable_name}]

\* MainWindow::decode_plot_buffer_contents' effect on the fields, given its
\* locals d.
viewer_plot_buffer_contents(viewer, d) ==
    LET stored == IF d.buff_type = Float64
                  THEN make_float_buffer_from_double(d.buff_contents)
                  ELSE d.buff_contents
        visualized_width == IF ~d.transpose_buffer THEN d.buff_width
                            ELSE d.buff_height
        visualized_height == IF ~d.transpose_buffer THEN d.buff_height
                             ELSE d.buff_width
    IN  [viewer EXCEPT
            !.held_buffers_ = Assign(@, d.variable_name, stored),
            !.stages_ = Assign(@, d.variable_name,
                               [visualized_width |-> visualized_width,
                                visualized_height |-> visualized_height]),
            !.loaded_vars_ = @ \cup {d.variable_name}]

\* MainWindow::loop: decode_incoming_messages clears available_vars_,
\* returns when the socket holds no bytes, reads the header and runs the
\* decode function of that kind.  The reply to GetObservedSymbols is the
\* viewer's respond action of the frame model.
loop ==
    /\ codec.pc \in {"buffered", "loop"}
    /\ LET cleared == [codec.viewer EXCEPT !.available_vars_ = <<>>]
           body == SizeOfMessageType + 1
       IN  IF codec.pc = "loop"
           THEN codec' = [codec EXCEPT !.header = "none", !.decoded = NoMsg,
                                       !.viewer = cleared]
           ELSE LET header == HeaderKind(read(codec.bytes, 1, SizeOfMessageType).value)
                IN  CASE header = SetAvailableSymbols ->
                           LET d == viewer_set_available_symbols(cleared, codec.bytes, body)
                           IN  codec' = [codec EXCEPT
                                   !.pc = "loop", !.header = header,
                                   !.decoded = d.value,
                                   !.since = {},
                                   !.viewer = viewer_available_symbols_read(
                                                  cleared, d.value.available_vars)]
                      [] header = PlotBufferContents ->
                           LET d == decode_plot_buffer_contents(codec.bytes, body)
                           IN  codec' = [codec EXCEPT
                                   !.pc = "loop", !.header = header,
                                   !.decoded = d.value,
                                   !.since = @ \cup {codec.value.variable_name},
                                   !.viewer = viewer_plot_buffer_contents(cleared, d.value)]
                      [] OTHER ->
                           codec' = [codec EXCEPT !.pc = "loop", !.header = header,
                                                  !.decoded = NoMsg,
                                                  !.viewer = cleared]
    /\ UNCHANGED <<session, gate, calls, composer, rx>>

NextViewer ==
    \/ bridge_sends
    \/ loop

SpecViewer == Init /\ [][NextViewer]_vars

(***************************************************************************)
(* MessageComposer::send, one socket->write at a time.  The composer is    *)
(* [pc, value, message_blocks_, block, offset, written, short]: block is   *)
(* the index of the block the for loop is at, offset the local of that     *)
(* name, written the bytes the socket accepted so far and short the        *)
(* number of writes that accepted fewer bytes than they were given.        *)
(***************************************************************************)
\* The names and lists of names sent over the stepwise connection.
WireNames == {<<>>, <<97>>}
WireLists == {<<>>, <<<<97>>>>, <<<<>>, <<97>>>>}

\* A plot_buffer call's arguments.
WirePlot ==
    [kind |-> PlotBufferContents, variable_name |-> <<97>>, display_name |-> <<>>,
     pixel_layout |-> <<97>>, transpose_buffer |-> FALSE, buff_width |-> 2,
     buff_height |-> 1, buff_channels |-> 1, buff_stride |-> 2, buff_type |-> 0,
     buff_contents |-> <<97, 0>>]

\* The values the five send operations are called with.
SendPayloads ==
    {[kind |-> GetObservedSymbols], WirePlot}
        \cup [kind : {SetAvailableSymbols}, available_vars : WireLists]
        \cup [kind : {GetObservedSymbolsResponse}, observed_symbols : WireLists]
        \cup [kind : {PlotBufferRequest}, buffer_name : WireNames]

\* The numbers of bytes socket->write may accept of a block of this size:
\* all of it, or (a short write) at least one byte and not all.
Accepted(size, short) ==
    {size} \cup (IF short < MaxShortWrites THEN 1..(size - 1) ELSE {})

\* The push calls of a send operation, up to the call of send().
compose ==
    /\ composer.pc = "idle"
    /\ \E p \in SendPayloads :
           composer' = [pc |-> "send", value |-> p, message_blocks_ |-> BlocksOf(p),
                        block |-> 1, offset |-> 0, written |-> <<>>, short |-> 0]
    /\ UNCHANGED <<session, gate, calls, codec, rx>>

\* One iteration of the do-while: socket->write(block->data(), block->size())
\* accepts n bytes, offset += n; the for loop goes to the next block when
\* offset has reached the block's size.
send_write ==
    /\ composer.pc = "send"
    /\ composer.block <= Len(composer.message_blocks_)
    /\ LET data == composer.message_blocks_[composer.block]
           size == Len(data)
       IN  \E n \in Accepted(size, composer.short) :
               LET offset == composer.offset + n
                   done == ~(offset < size)
               IN  composer' = [composer EXCEPT
                       !.written = @ \o SubSeq(data, 1, n),
                       !.short = IF n < size THEN @ + 1 ELSE @,
                       !.offset = IF done THEN 0 ELSE offset,
                       !.block = IF done THEN @ + 1 ELSE @]
    /\ UNCHANGED <<session, gate, calls, codec, rx>>

\* The for loop is over: the last waitForBytesWritten, and send returns.
send_returns ==
    /\ composer.pc = "send"
    /\ composer.block > Len(composer.message_blocks_)
    /\ composer' = [composer EXCEPT !.pc = "done"]
    /\ UNCHANGED <<session, gate, calls, codec, rx>>

NextComposer ==
    \/ compose
    \/ send_write
    \/ send_returns

SpecComposer == Init /\ [][NextComposer]_vars

(***************************************************************************)
(* oid_plot_buffer from its arguments to the frame.  The host's objects    *)
(* are seen through the checks the code makes on them: a field of the      *)
(* dict is "absent" or has one of the types below, the memoryview gives a  *)
(* pointer that is null or not and the bytes behind it.  Until the call    *)
(* returns composer is [pc, input, exit, raised, message_blocks_,          *)
(* written]: what the call was given, the path it returns on, the          *)
(* exception it raised and the bytes it wrote.                             *)
(***************************************************************************)
\* The longest buffer the host supplies.
MaxBufferLen == 4

\* The keys oid_plot_buffer requires, and the type each must have.
RequiredFields ==
    {"variable_name", "display_name", "pointer", "width", "height", "channels",
     "type", "row_stride", "pixel_layout"}

FieldType(k) ==
    CASE k \in {"variable_name", "display_name", "pixel_layout"} -> "str"
      [] k \in {"width", "height", "channels", "type", "row_stride"} -> "int"
      [] k = "pointer" -> "memoryview"
      [] k = "transpose_buffer" -> "bool"

\* A dict with every required key, each of the expected type.
GoodFields(transpose) ==
    [k \in RequiredFields \cup {"transpose_buffer"} |->
        IF k = "transpose_buffer" THEN transpose ELSE FieldType(k)]

\* The dicts the host passes: complete ones, and ones with one key absent
\* or of another type.
MetadataFields ==
    {GoodFields(t) : t \in {"absent", "bool"}}
        \cup {[GoodFields("absent") EXCEPT ![k] = v] :
                  k \in RequiredFields \cup {"transpose_buffer"},
                  v \in {"absent", "other"}}

\* CHECK_FIELD_PROVIDED fails on a key the dict does not have.
CHECK_FIELD_PROVIDED(fields, k) == fields[k] # "absent"

\* CHECK_FIELD_TYPE fails on a value the type checker rejects.
CHECK_FIELD_TYPE(fields, k) == fields[k] = FieldType(k)

\* typesize(BufferType): the bytes of one element.
typesize(buff_type) ==
    CASE buff_type = 0 -> 1
      [] buff_type \in {2, 3} -> 2
      [] buff_type \in {4, 5} -> 4
      [] buff_type = Float64 -> 8

Abs(a) == IF a < 0 THEN -a ELSE a

\* int * int with the result wrapped to 32 bits, computed byte by byte.
Mul32(a, b) ==
    LET x == PrimitiveBlock(a, SizeOfInt)
        y == PrimitiveBlock(b, SizeOfInt)
        c1 == x[1] * y[1]
        c2 == x[1] * y[2] + x[2] * y[1] + c1 \div 256
        c3 == x[1] * y[3] + x[2] * y[2] + x[3] * y[1] + c2 \div 256
        c4 == x[1] * y[4] + x[2] * y[3] + x[3] * y[2] + x[4] * y[1] + c3 \div 256
    IN  ToInt(<<c1 % 256, c2 % 256, c3 % 256, c4 % 256>>)

\* The product of the two ints is not an int.
Overflows(a, b) == a # 0 /\ b # 0 /\ Abs(a) > 2147483647 \div Abs(b)

\* static_cast<size_t>(product) * typesize, Huge for what no buffer here
\* reaches: a negative int becomes a size_t near 2^64.
ToExpectedSize(product, buff_type) ==
    IF product < 0 \/ product >= Huge THEN Huge
    ELSE product * typesize(buff_type)

\* buff_size_expected.  A product that overflows int is undefined: the
\* build wraps it to 32 bits (ub = "wraps") or keeps the wide product
\* (ub = "wide"), whose size is Huge unless a factor is 0.
buff_size_expected(buff_stride, buff_height, buff_channels, buff_type, ub) ==
    LET first == Mul32(buff_stride, buff_height)
        overflow == \/ Overflows(buff_stride, buff_height)
                    \/ (~Overflows(buff_stride, buff_height)
                            /\ Overflows(first, buff_channels))
    IN  IF overflow /\ ub = "wide"
        THEN (IF buff_channels = 0 THEN 0 ELSE Huge)
        ELSE ToExpectedSize(Mul32(first, buff_channels), buff_type)

\* The buffer the host's memoryview exposes: size bytes.
BufferOf(size) == [i \in 1..size |-> 97]

\* The arguments of the calls: the dicts above with dimensions that fit a
\* small buffer, and complete dicts with all dimensions.
SubmitDefects ==
    [handler : {"null", "app"}, dict : BOOLEAN, fields : MetadataFields,
     buff_ptr : {"null", "valid"}, buff_size : {2},
     row_stride : {2}, height : {1}, channels : {1}, type : {0}, ub : {"wraps"}]

SubmitDimensions ==
    [handler : {"app"}, dict : {TRUE},
     fields : {GoodFields("absent"), GoodFields("bool")},
     buff_ptr : {"valid"}, buff_size : 0..MaxBufferLen,
     row_stride : {-1, 2, 65536}, height : {1, 65536}, channels : {1, 2},
     type : {0, 3}, ub : {"wraps", "wide"}]

SubmitInputs == SubmitDefects \cup SubmitDimensions

\* The checks of oid_plot_buffer in their order: the path the call returns
\* on, "normal" when it reaches app->plot_buffer.
oid_plot_buffer_exit_NoChecks(in) ==
    IF in.handler = "null" THEN "null_handle" ELSE "normal"

oid_plot_buffer_exit(in) ==
    LET f == in.fields
        expected == buff_size_expected(in.row_stride, in.height, in.channels,
                                       in.type, in.ub)
    IN  IF in.handler = "null" THEN "null_handle"
        ELSE IF ~in.dict THEN "not_a_dict"
        ELSE IF f["transpose_buffer"] # "absent"
                    /\ ~CHECK_FIELD_TYPE(f, "transpose_buffer") THEN "field_check"
        ELSE IF \E k \in RequiredFields : ~CHECK_FIELD_PROVIDED(f, k) THEN "field_check"
        ELSE IF \E k \in RequiredFields \ {"pointer"} : ~CHECK_FIELD_TYPE(f, k)
             THEN "field_check"
        ELSE IF f["pointer"] # "memoryview" THEN "no_pointer"
        ELSE IF in.buff_ptr = "null" THEN "null_pointer"
        ELSE IF in.buff_size < expected THEN "short_buffer"
        ELSE "normal"

\* The arguments oid_plot_buffer passes to app->plot_buffer.
PlotArguments(in) ==
    [kind |-> PlotBufferContents, variable_name |-> <<97>>, display_name |-> <<97>>,
     pixel_layout |-> <<97>>,
     transpose_buffer |-> (in.fields["transpose_buffer"] = "bool"),
     buff_width |-> 2, buff_height |-> in.height,
     buff_channels |-> in.channels, buff_stride |-> in.row_stride,
     buff_type |-> in.type, buff_contents |-> BufferOf(in.buff_size)]

\* oid_plot_buffer: the checks, then OidBridge::plot_buffer, whose send
\* writes every block whole.
oid_plot_buffer ==
    /\ composer.pc = "idle"
    /\ pc = "idle"
    /\ \E in \in SubmitInputs :
           LET exit == oid_plot_buffer_exit(in)
               blocks == IF exit = "normal" THEN plot_buffer_blocks(PlotArguments(in))
                         ELSE <<>>
           IN  /\ composer' = [pc |-> "returned",
                               input |-> in, exit |-> exit,
                               raised |-> RAISE_PY_EXCEPTION(exit),
                               message_blocks_ |-> blocks,
                               written |-> Flatten(blocks)]
               /\ IF exit = "normal" THEN plot_buffer ELSE UNCHANGED session
    /\ UNCHANGED <<gate, calls, codec, rx>>

\* The call is over: the host has the result.
oid_plot_buffer_returns ==
    /\ composer.pc = "returned"
    /\ composer' = NoComposer
    /\ UNCHANGED <<session, gate, calls, codec, rx>>

NextSubmit ==
    \/ start /\ UNCHANGED <<gate, calls, wire>>
    \/ oid_plot_buffer
    \/ oid_plot_buffer_returns
    \/ ViewerLoopEntry /\ UNCHANGED <<gate, calls, wire>>

SpecSubmit == Init /\ [][NextSubmit]_vars

(***************************************************************************)
(* The bridge's end of the connection, one socket call at a time.  The     *)
(* viewer sends the frames rx.frames, whose bytes are rx.stream; the       *)
(* connection stays open.  Bytes reach the QTcpSocket's buffer only        *)
(* inside waitForReadyRead: rx.buffered counts the bytes of the stream     *)
(* that reached it, rx.consumed those the bridge has read from it.  The    *)
(* viewer sends when it pleases and may stop sending at any byte.          *)
(* rx.pc is the pump's position: "idle" outside the pump, "wait" at the    *)
(* loop's waitForReadyRead, "header" at the read of the MessageType,       *)
(* "read" inside MessageDecoder::read_impl, "crashed" after a null         *)
(* message was dereferenced.                                               *)
(***************************************************************************)
\* The fields of OidBridge, the frame-level socket and the bookkeeping that
\* the byte-level pump leaves alone.
bookkeeping == <<client_, pc, to_viewer, sockbuf, plotted, ret, req_sent,
                 plot_sent, arrived, seen, distinct, last_out, last>>

\* The name the viewer requests and the lists of names it answers with.
StreamNames == {<<97>>}
StreamLists == {<<>>, <<<<>>>>}

\* The frames the viewer sends to the bridge.
FramesToBridge ==
    [kind : {PlotBufferRequest}, buffer_name : StreamNames]
        \cup [kind : {GetObservedSymbolsResponse}, observed_symbols : StreamLists]

FrameSequences == UNION {[1..n -> FramesToBridge] : n \in 0..MaxFrames}

\* The bytes of a sequence of frames, each written whole by its send().
RECURSIVE StreamOf(_)
StreamOf(frames) ==
    IF frames = <<>> THEN <<>>
    ELSE Flatten(BlocksOf(Head(frames))) \o StreamOf(Tail(frames))

\* The kind of the frame whose first byte is at offset at of the stream,
\* "none" when no frame starts there.
RECURSIVE FrameKindAt(_, _)
FrameKindAt(frames, at) ==
    IF frames = <<>> \/ at < 0 THEN "none"
    ELSE IF at = 0 THEN Head(frames).kind
    ELSE FrameKindAt(Tail(frames), at - Len(Flatten(BlocksOf(Head(frames)))))

\* No read_impl call yet.
NoRead == [start |-> 0, length |-> 0, offset |-> 0, dst |-> <<>>]

\* No read_impl call has returned yet.  short tells that the call made more
\* than one socket read.
NoLastRead == [start |-> 0, length |-> 0, dst |-> <<>>, short |-> FALSE]

\* No header read yet.
NoHeader == [at |-> -1, kind |-> "none", size |-> 0]

\* OidBridge::start with a viewer that connects and has these frames to send.
start_stream ==
    /\ rx = NoStream
    /\ client_ = "null"
    /\ client_' = "connected"
    /\ \E frames \in FrameSequences :
           rx' = [pc |-> "idle", frames |-> frames, stream |-> StreamOf(frames),
                  buffered |-> 0, consumed |-> 0, decoded |-> 0,
                  header |-> NoHeader, stage |-> "none", left |-> 0,
                  symbols |-> <<>>, read |-> NoRead, last_read |-> NoLastRead]
    /\ UNCHANGED <<received_messages_, pc, to_viewer, sockbuf, plotted, ret,
                   req_sent, plot_sent, arrived, seen, distinct, last_out, last>>
    /\ UNCHANGED <<gate, calls, composer>>

\* bytesAvailable().
bytesAvailable(r) == r.buffered - r.consumed

\* The numbers of bytes that can reach the socket's buffer during one
\* waitForReadyRead, out of those the viewer has still to send: 0 is a wait
\* that ends by its timeout.
NewBytes(r) == 0..(Len(r.stream) - r.buffered)

\* try_read_incoming_messages is called (by fetch_message or run_event_loop).
pump_called ==
    /\ rx # NoStream
    /\ rx.pc = "idle"
    /\ client_ = "connected"
    /\ rx' = [rx EXCEPT !.pc = "wait", !.decoded = 0]
    /\ UNCHANGED <<session, gate, calls, composer>>

\* client_->waitForReadyRead(msecs) at the top of the loop, then the test of
\* bytesAvailable() == 0 that leaves the loop.
pump_wait ==
    /\ rx # NoStream
    /\ rx.pc = "wait"
    /\ \E k \in NewBytes(rx) :
           LET r == [rx EXCEPT !.buffered = @ + k]
           IN  rx' = IF bytesAvailable(r) = 0
                     THEN [r EXCEPT !.pc = "idle", !.decoded = 0]
                     ELSE [r EXCEPT !.pc = "header"]
    /\ UNCHANGED <<session, gate, calls, composer>>

\* The values a MessageType variable can hold after client_->read filled its
\* first Len(bytes) bytes: the kind of that code when all bytes were read,
\* otherwise any value that agrees with the bytes read.
HeaderValues(bytes) ==
    IF Len(bytes) = SizeOfMessageType THEN {HeaderKind(bytes)}
    ELSE {k \in QueueKinds :
              SubSeq(PrimitiveBlock(MessageTypeCode(k), SizeOfMessageType),
                     1, Len(bytes)) = bytes}
             \cup {"Unknown"}

\* A read_impl call for length bytes begins.
StartRead(r, stage, length) ==
    [r EXCEPT !.pc = "read", !.stage = stage,
              !.read = [start |-> r.consumed, length |-> length, offset |-> 0,
                        dst |-> <<>>]]

\* The end of one iteration of the pump's loop: while (bytesAvailable() > 0).
\* The decoder's locals are gone.  rx.decoded is 1 once an iteration of this
\* call has ended and the loop goes on, 0 again when the pump returns.
\* rx.header stays: it is the last header the pump read.
EndOfIteration(r) ==
    [r EXCEPT !.pc = IF bytesAvailable(r) > 0 THEN "wait" ELSE "idle",
              !.decoded = IF bytesAvailable(r) > 0 THEN 1 ELSE 0,
              !.read = NoRead,
              !.stage = "none", !.left = 0, !.symbols = <<>>]

\* The insertion with one queue for everything that is decoded, the queue
\* of PlotBufferRequest, whatever the header was.
Inserted_OneQueue(rm, header, m) ==
    [t \in DOMAIN rm \cup {PlotBufferRequest} |->
        IF t = PlotBufferRequest THEN InsertMessage(QueueOf(rm, t), m)
        ELSE rm[t]]

\* received_messages_[header] after the insertion of the decoded message:
\* the queue is looked up by the header that was read, whatever the message.
Inserted(rm, header, m) ==
    [t \in DOMAIN rm \cup {header} |->
        IF t = header THEN InsertMessage(QueueOf(rm, t), m) ELSE rm[t]]

\* The read of the header and the switch on it.  PlotBufferRequest and
\* GetObservedSymbolsResponse go on to their decoder; for any other value
\* message stays null: remove_if calls message->isSame for each entry of
\* the queue (a null dereference when the queue has one), push_back stores
\* the null message.
pump_header ==
    /\ rx # NoStream
    /\ rx.pc = "header"
    /\ LET n == Min(bytesAvailable(rx), SizeOfMessageType)
           bytes == SubSeq(rx.stream, rx.consumed + 1, rx.consumed + n)
       IN  \E header \in HeaderValues(bytes) :
               LET r == [rx EXCEPT !.consumed = @ + n,
                                   !.header = [at |-> rx.consumed, kind |-> header,
                                               size |-> n]]
               IN  CASE header = PlotBufferRequest ->
                            /\ rx' = [StartRead(r, "symbol_length", SizeOfSizeT)
                                          EXCEPT !.left = 1]
                            /\ UNCHANGED received_messages_
                     [] header = GetObservedSymbolsResponse ->
                            /\ rx' = StartRead(r, "number_symbols", SizeOfSizeT)
                            /\ UNCHANGED received_messages_
                     [] OTHER ->
                            IF QueueOf(received_messages_, header) # <<>>
                            THEN /\ rx' = [r EXCEPT !.pc = "crashed"]
                                 /\ UNCHANGED received_messages_
                            ELSE /\ rx' = EndOfIteration(r)
                                 /\ received_messages_' =
                                        [t \in DOMAIN received_messages_ \cup {header} |->
                                            IF t = header THEN <<NoMsg>>
                                            ELSE received_messages_[t]]
    /\ UNCHANGED <<bookkeeping, gate, calls, composer>>

\* socket_->read with the chunk written before the bytes read so far.
read_into_Before(dst, offset, chunk) == chunk \o dst

\* socket_->read(dst + offset, ...): the chunk lands behind the offset bytes
\* that are already in dst.
read_into(dst, offset, chunk) == SubSeq(dst, 1, offset) \o chunk

\* What the decoder does with the bytes of a finished read: the count of a
\* list, the length of a string, or the string itself, after whose last one
\* the message is complete and inserted.
AfterRead(r, value) ==
    CASE r.stage = "number_symbols" ->
             IF ToSize(value) = 0
             THEN [next |-> EndOfIteration(r), done |-> TRUE]
             ELSE [next |-> [StartRead(r, "symbol_length", SizeOfSizeT)
                                 EXCEPT !.left = ToSize(value)],
                   done |-> FALSE]
      [] r.stage = "symbol_length" ->
             [next |-> StartRead(r, "symbol", ToSize(value)), done |-> FALSE]
      [] r.stage = "symbol" ->
             LET s == [r EXCEPT !.symbols = Append(@, value), !.left = @ - 1]
             IN  IF s.left = 0
                 THEN [next |-> EndOfIteration(s), done |-> TRUE]
                 ELSE [next |-> StartRead(s, "symbol_length", SizeOfSizeT),
                       done |-> FALSE]

\* The message the pump's decoder built from the strings it read.
DecodedMessage(r, value) ==
    LET symbols == IF r.stage = "symbol" THEN Append(r.symbols, value)
                   ELSE r.symbols
    IN  IF r.header.kind = PlotBufferRequest
        THEN [kind |-> PlotBufferRequest, buffer_name |-> symbols[1],
              observed_symbols |-> <<>>, seq |-> 0, req |-> 0]
        ELSE [kind |-> GetObservedSymbolsResponse, buffer_name |-> <<>>,
              observed_symbols |-> symbols, seq |-> 0, req |-> 0]

\* One iteration of read_impl's do-while: socket_->read gives n bytes, from
\* none to all that are buffered and still missing; offset += n; if bytes
\* are still missing, waitForReadyRead and again; otherwise read_impl
\* returns and the decoder goes on with the bytes.
read_impl ==
    /\ rx # NoStream
    /\ rx.pc = "read"
    /\ \E n \in 0..Min(bytesAvailable(rx), rx.read.length - rx.read.offset) :
           LET chunk == SubSeq(rx.stream, rx.consumed + 1, rx.consumed + n)
               now == [rx.read EXCEPT
                          !.dst = read_into(@, rx.read.offset, chunk),
                          !.offset = @ + n]
               returned == [start |-> now.start, length |-> now.length,
                            dst |-> now.dst, short |-> n < now.length]
               r == [rx EXCEPT !.consumed = @ + n, !.read = now]
           IN  IF now.offset < now.length
               THEN /\ \E k \in NewBytes(r) : rx' = [r EXCEPT !.buffered = @ + k]
                    /\ UNCHANGED received_messages_
               ELSE LET after == AfterRead([r EXCEPT !.last_read = returned], now.dst)
                    IN  /\ rx' = after.next
                        /\ received_messages_' =
                               IF after.done
                               THEN Inserted(received_messages_, r.header.kind,
                                             DecodedMessage(r, now.dst))
                               ELSE received_messages_
    /\ UNCHANGED <<bookkeeping, gate, calls, composer>>

\* The steps of the pump.
pump_step == (pump_wait \/ pump_header \/ read_impl) /\ UNCHANGED codec

NextStream ==
    \/ start_stream /\ UNCHANGED codec
    \/ pump_called /\ UNCHANGED codec
    \/ pump_wait /\ UNCHANGED codec
    \/ pump_header /\ UNCHANGED codec
    \/ read_impl /\ UNCHANGED codec

SpecStream == Init /\ [][NextStream]_vars

(***************************************************************************)
(* The same connection with a count kept of what each pump owes: codec is  *)
(* [pc, due, inserted], due the number of the stream's frames that were    *)
(* completely in the socket's buffer when the pump's first wait ended and  *)
(* it started to drain, inserted the number of messages the pump has       *)
(* decoded and inserted since.                                             *)
(***************************************************************************)
\* The number of frames whose bytes all lie between the offsets from and to
\* of the stream, at being the offset of the first frame.
RECURSIVE CompleteFrames(_, _, _, _)
CompleteFrames(frames, at, from, to) ==
    IF frames = <<>> THEN 0
    ELSE LET end == at + Len(Flatten(BlocksOf(Head(frames))))
         IN  (IF from <= at /\ end <= to THEN 1 ELSE 0)
                 + CompleteFrames(Tail(frames), end, from, to)

drain_start ==
    /\ start_stream
    /\ codec' = [pc |-> "drain", due |-> 0, inserted |-> 0]

drain_pump_called ==
    /\ pump_called
    /\ codec' = [codec EXCEPT !.due = 0, !.inserted = 0]

drain_pump_wait ==
    /\ pump_wait
    /\ codec' = IF rx.decoded = 0 /\ rx'.pc = "header"
                THEN [codec EXCEPT !.due = CompleteFrames(rx.frames, 0, rx.consumed,
                                                         rx'.buffered)]
                ELSE codec

drain_pump_header == pump_header /\ UNCHANGED codec

drain_read_impl ==
    /\ read_impl
    /\ codec' = IF rx'.stage = "none" THEN [codec EXCEPT !.inserted = @ + 1]
                ELSE codec

NextDrain ==
    \/ drain_start
    \/ drain_pump_called
    \/ drain_pump_wait
    \/ drain_pump_header
    \/ drain_read_impl

SpecDrain == Init /\ [][NextDrain]_vars

\* A step of the pump during which no byte arrives.
pump_step_alone == pump_step /\ rx'.buffered = rx.buffered

\* The pump goes on with what it has as long as it can; the viewer is under
\* no obligation to send.
SpecStreamFair == SpecStream /\ WF_vars(pump_step_alone)

(***************************************************************************)
(* The same connection under the periodic tick: run_event_loop calls the   *)
(* pump and, when the pump has returned, dequeues every PlotBufferRequest  *)
(* and calls plot_callback_ with its name.  codec is [pc, owed]: pc is     *)
(* "ready" between ticks and "pump" while the tick's pump runs, owed the   *)
(* names of the PlotBufferRequest frames whose last byte has reached the   *)
(* socket's buffer and that plot_callback_ has not been called with since. *)
(***************************************************************************)
\* The names of the PlotBufferRequest frames whose last byte lies behind the
\* offset from and not behind the offset to of the stream, at being the
\* offset of the first frame.
RECURSIVE ArrivedRequests(_, _, _, _)
ArrivedRequests(frames, at, from, to) ==
    IF frames = <<>> THEN {}
    ELSE LET end == at + Len(Flatten(BlocksOf(Head(frames))))
         IN  (IF Head(frames).kind = PlotBufferRequest /\ from < end /\ end <= to
              THEN {Head(frames).buffer_name} ELSE {})
                 \cup ArrivedRequests(Tail(frames), end, from, to)

\* codec after a step of the pump: the requests that arrived during it.
Owed == [codec EXCEPT !.owed = @ \cup ArrivedRequests(rx.frames, 0, rx.buffered,
                                                      rx'.buffered)]

tick_start ==
    /\ start_stream
    /\ codec' = [pc |-> "ready", owed |-> {}]

\* run_event_loop calls try_read_incoming_messages.
tick_called ==
    /\ codec.pc = "ready"
    /\ pump_called
    /\ codec' = [codec EXCEPT !.pc = "pump"]

tick_pump_wait == pump_wait /\ codec' = Owed

tick_pump_header == pump_header /\ UNCHANGED codec

tick_read_impl == read_impl /\ codec' = Owed

\* The pump has returned: the while loop of run_event_loop.
tick_drain ==
    /\ rx # NoStream
    /\ rx.pc = "idle"
    /\ codec.pc = "pump"
    /\ LET d == DrainPlotRequests(received_messages_, <<>>)
       IN  /\ received_messages_' = d.rm
           /\ plotted' = BufferNames(d.out)
           /\ codec' = [pc |-> "ready",
                        owed |-> codec.owed \ {d.out[i].buffer_name :
                                                   i \in 1..Len(d.out)}]
    /\ UNCHANGED <<client_, pc, to_viewer, sockbuf, ret, req_sent, plot_sent,
                   arrived, seen, distinct, last_out, last>>
    /\ UNCHANGED <<gate, calls, composer, rx>>

NextTick ==
    \/ tick_start
    \/ tick_called
    \/ tick_pump_wait
    \/ tick_pump_header
    \/ tick_read_impl
    \/ tick_drain

SpecTick == Init /\ [][NextTick]_vars

\* A step of the bridge during which no byte arrives (no request becomes
\* owed then): at any time at most one of the three can be taken.
tick_alone == tick_called \/ pump_step_alone \/ tick_drain

\* The tick is repeated, and a pump or a drain that can go on does; the
\* viewer is under no obligation to send.
SpecTickFair == SpecTick /\ WF_vars(tick_alone)


(***************************************************************************)
(* Properties of the receive queues.                                       *)
(***************************************************************************)
PlotQueue == QueueOf(received_messages_, PlotBufferRequest)
ResponseQueue == QueueOf(received_messages_, GetObservedSymbolsResponse)
NamesIn(q) == {q[i].buffer_name : i \in 1..Len(q)}

\* C1: every receive queue has at most as many entries as its kind allows:
\* 1 for GetObservedSymbolsResponse, 512 for every other kind.
C1_QueueLengthBounded ==
    \A t \in DOMAIN received_messages_ :
        Len(received_messages_[t]) <=
            (IF t = "GetObservedSymbolsResponse" THEN 1 ELSE 512)

\* Both limits are reached: more frames than the limit were decoded.
C1_Witness ==
    /\ Len(PlotQueue) = 512 /\ arrived[PlotBufferRequest] > 512
    /\ Len(ResponseQueue) = 1 /\ arrived[GetObservedSymbolsResponse] = 2
    /\ distinct[GetObservedSymbolsResponse]

\* Two queued messages that the kind's predicate calls equal.
SameContent(a, b) ==
    /\ a.kind = b.kind
    /\ a.kind = "PlotBufferRequest" => a.buffer_name = b.buffer_name
    /\ a.kind = "GetObservedSymbolsResponse" => a.observed_symbols = b.observed_symbols

NoDuplicates ==
    \A t \in DOMAIN received_messages_ :
        \A i, j \in 1..Len(received_messages_[t]) :
            i # j => ~SameContent(received_messages_[t][i], received_messages_[t][j])

IsSuffix(a, b) == Len(a) <= Len(b) /\ a = SubSeq(b, Len(b) - Len(a) + 1, Len(b))

\* A pump iteration puts the decoded frame at the tail of its kind's queue and
\* keeps, in order, the other entries that are not equal to it.
InsertAtTail ==
    (pc = "pump" /\ sockbuf # <<>> /\ sockbuf' = Tail(sockbuf)) =>
        LET f == Head(sockbuf)
            old == QueueOf(received_messages_, f.kind)
            new == received_messages_'[f.kind]
            m == new[Len(new)]
            rest == SubSeq(new, 1, Len(new) - 1)
        IN  /\ new # <<>>
            /\ m.kind = f.kind
            /\ m.buffer_name = f.buffer_name
            /\ m.observed_symbols = f.observed_symbols
            /\ IsSuffix(rest, SelectSeq(old, LAMBDA o : ~SameContent(o, m)))
            /\ f.kind = "PlotBufferRequest" =>
                   rest = SelectSeq(old, LAMBDA o : ~SameContent(o, m))

\* C2: no queue holds two equal entries; inserting a message equal to a queued
\* one removes the earlier occurrence and appends the new one at the tail,
\* leaving the order of the other entries unchanged.
C2_NoDuplicatesNewestLast == []NoDuplicates /\ [][InsertAtTail]_vars

\* A request was queued again behind another one: <<1, 2>> then 1 gives <<2, 1>>.
C2_Witness ==
    /\ Len(PlotQueue) = 2
    /\ PlotQueue[1].buffer_name = 2 /\ PlotQueue[2].buffer_name = 1
    /\ ~distinct[PlotBufferRequest] /\ arrived[PlotBufferRequest] = 3

\* C3: when more pairwise distinct messages of a kind than the kind's limit B
\* were inserted and none was dequeued, the queue holds the B most recently
\* inserted ones in arrival order.
C3_KeepsMostRecent ==
    \A t \in QueueKinds :
        LET B == IF t = "GetObservedSymbolsResponse" THEN 1 ELSE 512
            N == arrived[t]
            q == QueueOf(received_messages_, t)
        IN  (N > B /\ last_out[t] = 0 /\ distinct[t]) =>
                /\ Len(q) = B
                /\ \A i \in 1..Len(q) :
                       /\ q[i].seq = N - B + i
                       /\ t = "PlotBufferRequest" => q[i].buffer_name = N - B + i

C3_Witness ==
    /\ arrived[PlotBufferRequest] = 514
    /\ last_out[PlotBufferRequest] = 0
    /\ distinct[PlotBufferRequest]
    /\ PlotQueue[1].buffer_name = 3
    /\ arrived[GetObservedSymbolsResponse] = 2
    /\ last_out[GetObservedSymbolsResponse] = 0
    /\ distinct[GetObservedSymbolsResponse]
    /\ Len(ResponseQueue) = 1

(***************************************************************************)
(* Properties of fetch_message and get_observed_symbols.                   *)
(***************************************************************************)
\* A step in which get_observed_symbols is called.
CallsGetObservedSymbols == pc = "idle" /\ req_sent' = req_sent + 1

\* C4: fetch on a non-empty queue returns the oldest queued message of the
\* kind and removes it, without running the pump: nothing is read from the
\* socket and every other queue is unchanged.
C4_FetchHitSkipsPump ==
    [][(CallsGetObservedSymbols /\ ResponseQueue # <<>>) =>
          /\ ret'.msg = Head(ResponseQueue)
          /\ received_messages_' =
                 [received_messages_ EXCEPT ![GetObservedSymbolsResponse] =
                      Tail(ResponseQueue)]
          /\ pc' = "idle"
          /\ last'.pumps = 0 /\ last'.lookups = 1
          /\ sockbuf' = sockbuf
          /\ arrived' = arrived]_vars

\* A call returned a stored response while frames were waiting in the socket.
C4_Witness ==
    /\ pc = "idle" /\ last.op = "get_observed_symbols" /\ last.pumps = 0
    /\ ret.msg # NoMsg /\ sockbuf # <<>>

\* C5: fetch on an empty queue runs the pump once and then looks the queue up
\* once more; it returns the oldest message of the kind if the pump queued
\* one and nothing otherwise, and never runs the pump a second time.
C5_FetchMissPumpsOnce ==
    /\ [][(CallsGetObservedSymbols /\ ResponseQueue = <<>>) =>
              (pc' = "pump" /\ last'.pumps = 1 /\ last'.lookups = 1)]_vars
    /\ [][(last.op = "get_observed_symbols" /\ pc = "pump") =>
              (pc' \in {"pump", "lookup"} /\ last'.op = last.op
                 /\ last'.pumps = last.pumps /\ last'.lookups = last.lookups)]_vars
    /\ [][(pc = "lookup" /\ pc' # "lookup") =>
              /\ pc' = "idle"
              /\ last'.pumps = 1 /\ last'.lookups = 2
              /\ IF ResponseQueue = <<>>
                 THEN ret'.msg = NoMsg /\ received_messages_' = received_messages_
                 ELSE /\ ret'.msg = Head(ResponseQueue)
                      /\ received_messages_' =
                             [received_messages_ EXCEPT
                                  ![GetObservedSymbolsResponse] = Tail(ResponseQueue)]]_vars
    /\ [](pc = "lookup" => last.op = "get_observed_symbols" /\ last.pumps = 1)

\* Both outcomes of a miss happened: one call got nothing, a later one got a
\* response that its pump queued.
C5_Witness ==
    /\ pc = "idle" /\ last.op = "get_observed_symbols"
    /\ last.pumps = 1 /\ last.lookups = 2
    /\ ret.msg # NoMsg /\ ret.req = 2
    /\ ret.msg.seq = 1

\* C6: the symbol list a get_observed_symbols call returns is the response to
\* the request sent in that same call.
C6_ReturnsMatchingReply ==
    (pc = "idle" /\ ret.msg # NoMsg) => ret.msg.req = ret.req

QueuesInArrivalOrder ==
    \A t \in DOMAIN received_messages_ :
        LET q == received_messages_[t]
        IN  /\ \A i, j \in 1..Len(q) : i < j => q[i].seq < q[j].seq
            /\ \A i \in 1..Len(q) : last_out[t] < q[i].seq

\* A step that dequeues takes a prefix of the queue, head first, and leaves
\* the rest in place.
DequeuesFromHead ==
    \A t \in QueueKinds :
        last_out'[t] # last_out[t] =>
            LET q == QueueOf(received_messages_, t)
                k == Len(q) - Len(received_messages_'[t])
            IN  /\ k \in 1..Len(q)
                /\ last_out'[t] = q[k].seq
                /\ received_messages_'[t] = SubSeq(q, k + 1, Len(q))
                /\ t = "GetObservedSymbolsResponse" => (k = 1 /\ ret'.msg = q[1])
                /\ t = "PlotBufferRequest" =>
                       plotted' = [i \in 1..k |-> q[i].buffer_name]

\* C8: within one kind, messages are dequeued in arrival order: a message
\* that arrived before another one of its kind is dequeued before it, by the
\* fetch and by the tick alike.
C8_DequeuedInArrivalOrder == []QueuesInArrivalOrder /\ [][DequeuesFromHead]_vars

\* Two requests were drained by one tick, the older one first, and a second
\* response was returned after the first.
C8_Witness ==
    /\ Len(plotted) = 2 /\ plotted[1] # plotted[2]
    /\ last_out[PlotBufferRequest] >= 2
    /\ last_out[GetObservedSymbolsResponse] = 2
    /\ pc = "idle" /\ ret.msg.seq = 2

\* C9: a tick runs the pump once and then empties the PlotBufferRequest
\* queue, calling the plot callback once per request queued after the pump,
\* oldest first, with the request's name; the GetObservedSymbolsResponse
\* queue is left as the pump left it.
C9_TickDrainsPlotRequests ==
    /\ [](last.op = "run_event_loop" => last.pumps = 1)
    /\ [][(pc = "idle" /\ pc' # "idle" /\ req_sent' = req_sent) =>
              (pc' = "pump" /\ last'.op = "run_event_loop"
                 /\ received_messages_' = received_messages_)]_vars
    /\ [][(last.op = "run_event_loop" /\ pc = "pump") =>
              (pc' \in {"pump", "drain"} /\ last'.op = last.op
                 /\ last'.pumps = last.pumps /\ last'.lookups = last.lookups
                 /\ plotted' = plotted)]_vars
    /\ [][(pc = "drain" /\ pc' # "drain") =>
              /\ pc' = "idle"
              /\ plotted' = [i \in 1..Len(PlotQueue) |-> PlotQueue[i].buffer_name]
              /\ QueueOf(received_messages_', PlotBufferRequest) = <<>>
              /\ QueueOf(received_messages_', GetObservedSymbolsResponse) =
                     ResponseQueue
              /\ DOMAIN received_messages_' = DOMAIN received_messages_]_vars
    /\ [][pc = pc' => plotted' = plotted]_vars

\* A tick drained two requests, oldest first, and left a response queued.
C9_Witness ==
    /\ pc = "idle" /\ last.op = "run_event_loop"
    /\ plotted = <<2, 1>>
    /\ PlotQueue = <<>> /\ ResponseQueue # <<>>

C11_GateNeverReentered == Cardinality(inside) + Len(nested) <= 1

\* A step in which an entry point returns to the host.
Returns(t) == t \in inside /\ t \notin inside'

\* C12: every entry point releases the lock on every exit path: when a call
\* has returned (normally, on a null handle, or out of oid_plot_buffer's
\* validation) the lock is free, so every thread's next PyGILState_Ensure
\* succeeds.
C12_LockReleasedOnEveryExit ==
    /\ [][\A t \in Threads : Returns(t) => (gil' = 0 /\ entry'.returned)]_vars
    /\ [](entry.returned => (inside = {} /\ gil = 0))
    /\ [](inside = {} => \A t \in Threads : PyGILState_Ensure(t))

\* oid_plot_buffer returned out of its buffer-size check, the lock is free.
C12_Witness ==
    /\ entry.op = "oid_plot_buffer" /\ entry.exit = "short_buffer"
    /\ entry.returned /\ gil = 0
    /\ client_ = "connected" /\ req_sent = 1

(***************************************************************************)
(* Properties of the byte encoding.                                        *)
(***************************************************************************)
\* C18: round trip: for every kind and every payload value, decoding the
\* bytes written by the kind's encode call site gives a value equal to the
\* original, empty strings, strings with NUL bytes and symbol lists of any
\* length included.
C18_RoundTrip == codec.pc = "received" => codec.decoded = codec.value

(***************************************************************************)
(* C16: when send returns, the socket has accepted exactly the pushed      *)
(* blocks one after the other, each byte once, whatever writes were short. *)
(***************************************************************************)
C16_SendWritesConcatenation ==
    composer.pc = "done" => composer.written = Flatten(composer.message_blocks_)

InsideFrame ==
    /\ rx # NoStream
    /\ rx.pc = "read"
    /\ rx.header.size = SizeOfMessageType
    /\ rx.header.kind = FrameKindAt(rx.frames, rx.header.at)

C13_PumpReturns == InsideFrame ~> (rx.pc \in {"idle", "crashed"})

(***************************************************************************)
(* C14: after the pump has decoded a frame, a waitForReadyRead at the top  *)
(* of its loop does not run to its timeout waiting for bytes that are not  *)
(* there yet: it ends with new bytes.  (Stated for a pump that is at the   *)
(* first byte of a frame the viewer sent.)                                 *)
(***************************************************************************)
LoopWaitEnds == rx # NoStream /\ rx.pc = "wait" /\ rx'.pc # "wait"

AtFrameStart == FrameKindAt(rx.frames, rx.consumed) # "none"

C14_OnlyFirstWaitBlocks ==
    [][(LoopWaitEnds /\ rx.decoded >= 1 /\ AtFrameStart)
           => rx'.buffered > rx.buffered]_vars

C19_HeaderIsNextFramesKind ==
    (rx # NoStream /\ rx.header # NoHeader) =>
        rx.header.kind = FrameKindAt(rx.frames, rx.header.at)

(***************************************************************************)
(* C15: when the pump's wait ends with no bytes available, the pump        *)
(* returns to its caller without reading: the receive queues, the socket   *)
(* and the results of earlier calls are as before.  A tick whose pump      *)
(* ended like that passes to the plot callback the requests that are in    *)
(* the queue, which nothing changes between the pump and the drain.        *)
(***************************************************************************)
PumpWaitEndsWithNoBytes == pc = "pump" /\ sockbuf = <<>> /\ pc' # "pump"

C15_NoBytesNoChange ==
    /\ [][PumpWaitEndsWithNoBytes =>
              /\ pc' = AfterPump
              /\ last'.timeout = (last.op = "run_event_loop")
              /\ received_messages_' = received_messages_
              /\ sockbuf' = sockbuf /\ arrived' = arrived
              /\ ret' = ret /\ plotted' = plotted /\ client_' = client_]_vars
    /\ [][(pc = "drain" /\ last.timeout) =>
              IF pc' = "drain" THEN received_messages_' = received_messages_
              ELSE /\ plotted' = BufferNames(PlotQueue)
                   /\ QueueOf(received_messages_', GetObservedSymbolsResponse)
                          = ResponseQueue]_vars

\* A tick's pump ended with no bytes and the tick passed the one request
\* that was queued to the callback.
C15_Witness ==
    /\ pc = "idle" /\ last.op = "run_event_loop" /\ last.timeout
    /\ plotted = <<1>>
    /\ PlotQueue = <<>>

(***************************************************************************)
(* Properties of the viewer's loop.                                        *)
(***************************************************************************)
\* C21: after the viewer has decoded a SetAvailableSymbols frame, its list
\* of available symbols is exactly the list the bridge sent: the same
\* elements in the same order, the same length, nothing left of the frame
\* before.
C21_AvailableSymbolsAreThoseSent ==
    (codec.pc = "loop" /\ codec.header = SetAvailableSymbols) =>
        codec.viewer.available_vars_ = codec.value.available_vars

\* C22: the viewer decodes a PlotBufferContents frame field by field in
\* the order the bridge wrote the fields: every decoded field equals the
\* value sent, the buffer stored under the variable's name equals the bytes
\* sent unless the element type is Float64, and the displayed dimensions
\* are (width, height) when transpose is false and (height, width) when it
\* is true.
C22_PlotBufferDecodedAsSent ==
    (codec.pc = "loop" /\ codec.header = PlotBufferContents) =>
        LET sent == codec.value
            name == sent.variable_name
        IN  /\ codec.decoded = sent
            /\ name \in DOMAIN codec.viewer.held_buffers_
            /\ sent.buff_type # Float64 =>
                   codec.viewer.held_buffers_[name] = sent.buff_contents
            /\ codec.viewer.stages_[name] =
                   IF sent.transpose_buffer
                   THEN [visualized_width |-> sent.buff_height,
                         visualized_height |-> sent.buff_width]
                   ELSE [visualized_width |-> sent.buff_width,
                         visualized_height |-> sent.buff_height]

\* A transposed buffer of bytes whose name holds a NUL byte was decoded
\* after a buffer had been stored under the other name.
C22_Witness ==
    /\ codec.pc = "loop" /\ codec.header = PlotBufferContents
    /\ codec.value.transpose_buffer /\ codec.value.buff_type = 0
    /\ codec.value.variable_name = <<97, 0>>
    /\ codec.value.buff_stride = -1
    /\ codec.viewer.held_buffers_[<<97, 0>>] = <<97, 0>>
    /\ codec.viewer.stages_[<<97, 0>>] =
           [visualized_width |-> 3, visualized_height |-> 2]
    /\ <<97>> \in DOMAIN codec.viewer.held_buffers_

(***************************************************************************)
(* Properties of oid_plot_buffer's checks.                                 *)
(***************************************************************************)
\* stride * height * channels * sizeof(element) as a number, Huge when it
\* is beyond every buffer here; negative products are never a length.
TrueSize(in) ==
    IF in.row_stride = 0 \/ in.height = 0 \/ in.channels = 0 THEN 0
    ELSE IF Overflows(in.row_stride, in.height) THEN Huge
    ELSE IF Overflows(in.row_stride * in.height, in.channels) THEN Huge
    ELSE IF Abs(in.row_stride * in.height * in.channels) >= Huge THEN Huge
    ELSE in.row_stride * in.height * in.channels * typesize(in.type)

\* C23: for every call that oid_plot_buffer accepts, the raw bytes of the
\* frame are exactly stride * height * channels * sizeof(element type)
\* bytes, also when the host's buffer is longer than that.
C23_RawBytesHaveExpectedLength ==
    (composer.pc = "returned" /\ composer.exit = "normal") =>
        Len(composer.message_blocks_[Len(composer.message_blocks_)])
            = TrueSize(composer.input)

\* C24: a call whose buffer is shorter than stride * height * channels *
\* sizeof(element type) is rejected with an error before anything is
\* written: no byte is sent and the session is as before.
C24_ShortBufferRejected ==
    [][(/\ composer'.pc = "returned"
        /\ composer.pc = "idle"
        /\ composer'.input.handler = "app"
        /\ composer'.input.buff_size < TrueSize(composer'.input)) =>
            /\ composer'.exit # "normal"
            /\ composer'.raised # "none"
            /\ composer'.written = <<>>
            /\ UNCHANGED session]_vars

\* The dict is no dict, lacks a required field or has one of another type,
\* the pointer is no usable buffer or the buffer's pointer is null.
InvalidInput(in) ==
    \/ ~in.dict
    \/ \E k \in RequiredFields : in.fields[k] # FieldType(k)
    \/ in.fields["transpose_buffer"] \notin {"absent", "bool"}
    \/ in.buff_ptr = "null"

\* C25: every oid_plot_buffer call with invalid input (no dict, a required
\* field missing or of the wrong type, a pointer that is no usable buffer,
\* a null buffer pointer) raises an error and returns before the composer
\* writes anything: no block is pushed, no byte is sent, the session is as
\* before.
C25_InvalidInputRejected ==
    [][(/\ composer.pc = "idle"
        /\ composer'.pc = "returned"
        /\ InvalidInput(composer'.input)) =>
            /\ composer'.exit \in PlotBufferChecks \cup {"null_handle"}
            /\ composer'.raised # "none"
            /\ composer'.message_blocks_ = <<>>
            /\ composer'.written = <<>>
            /\ UNCHANGED session]_vars

\* A call with a width of the wrong type was rejected while an earlier
\* buffer was on its way to the viewer.
C25_Witness ==
    /\ composer.pc = "returned" /\ composer.exit = "field_check"
    /\ composer.input.fields["width"] = "other"
    /\ composer.input.handler = "app" /\ composer.input.dict
    /\ client_ = "connected"
    /\ to_viewer = <<[kind |-> PlotBufferContents, req |-> 0]>>

\* C26: every entry point that takes the session's handle, called with a
\* null handle, raises a runtime error and returns without an operation on
\* the socket or the queues: the session is as before the call.
C26_NullHandleTouchesNothing ==
    [][(entry' # entry /\ ~entry'.returned /\ entry'.exit = "null_handle") =>
           /\ entry'.op \in HandleEntryPoints
           /\ entry'.raised = "PyExc_RuntimeError"
           /\ UNCHANGED session]_vars

\* oid_set_available_symbols was called with a null handle on a connected
\* session whose socket would have taken the frame.
C26_Witness ==
    /\ entry.op = "oid_set_available_symbols" /\ entry.exit = "null_handle"
    /\ ~entry.returned
    /\ client_ = "connected" /\ pc = "idle" /\ to_viewer = <<>>

Dequeued(rm, after, msg_type) ==
    /\ DOMAIN after = DOMAIN rm
    /\ \A t \in DOMAIN rm \ {msg_type} : after[t] = rm[t]
    /\ msg_type \in DOMAIN rm =>
           \E n \in 0..Len(rm[msg_type]) :
               after[msg_type] = SubSeq(rm[msg_type], n + 1, Len(rm[msg_type]))

\* C28: the receive queue table is changed only by the pump and by the
\* dequeues: set_available_symbols, plot_buffer and the send of
\* get_observed_symbols leave every queue as it is; a dequeue removes
\* entries at the head of its kind's queue only, and on an empty or absent
\* queue it returns nothing, changes nothing and creates no queue.
C28_QueuesChangedByPumpAndDequeue ==
    [][/\ (pc = "idle" /\ req_sent' = req_sent) =>
              received_messages_' = received_messages_
       /\ (pc = "idle" /\ req_sent' # req_sent) =>
              /\ Dequeued(received_messages_, received_messages_',
                          GetObservedSymbolsResponse)
              /\ Len(QueueOf(received_messages_', GetObservedSymbolsResponse))
                     >= Len(ResponseQueue) - 1
       /\ pc = "lookup" =>
              /\ Dequeued(received_messages_, received_messages_',
                          GetObservedSymbolsResponse)
              /\ ResponseQueue = <<>> =>
                     (received_messages_' = received_messages_
                          /\ (pc' = "idle" => ret'.msg = NoMsg))
       /\ pc = "drain" =>
              /\ Dequeued(received_messages_, received_messages_', PlotBufferRequest)
              /\ PlotQueue = <<>> =>
                     (received_messages_' = received_messages_
                          /\ (pc' = "idle" => plotted' = <<>>))
       /\ received_messages_' # received_messages_ =>
              pc \in {"idle", "pump", "lookup", "drain"}]_vars

\* get_observed_symbols looked for a response twice on a table that has no
\* queue, with its request and a frame sent before it on their way.
C28_Witness ==
    /\ pc = "idle" /\ last.op = "get_observed_symbols" /\ last.lookups = 2
    /\ ret.msg = NoMsg /\ ret.req = 1
    /\ DOMAIN received_messages_ = {}
    /\ entry.op = "oid_get_observed_buffers"
    /\ Len(to_viewer) = MaxInFlight

(***************************************************************************)
(* Properties of the pump's loop.                                          *)
(***************************************************************************)
\* C29: once the pump has started to drain it goes on while the socket
\* reports buffered bytes: when it returns the socket reports no buffered
\* byte, and every frame that was completely buffered when it started has
\* been decoded and inserted into its queue.
C29_PumpDrainsWhatWasBuffered ==
    [][(rx.pc \in {"wait", "header", "read"} /\ rx'.pc = "idle") =>
           /\ bytesAvailable(rx') = 0
           /\ codec'.inserted >= codec'.due]_vars

\* C30: the pump puts each decoded message into the queue of its own kind:
\* every entry of the PlotBufferRequest queue is a PlotBufferRequest
\* message and every entry of the GetObservedSymbolsResponse queue is a
\* GetObservedSymbolsResponse message, so neither queue holds a null
\* message or a message of another class.
C30_QueuesHoldTheirOwnKind ==
    \A t \in {PlotBufferRequest, GetObservedSymbolsResponse} :
        \A i \in 1..Len(QueueOf(received_messages_, t)) :
            QueueOf(received_messages_, t)[i].kind = t

\* The pump has returned with a decoded message in each of the two queues.
C30_Witness ==
    /\ rx # NoStream
    /\ rx.pc = "idle"
    /\ QueueOf(received_messages_, PlotBufferRequest) # <<>>
    /\ QueueOf(received_messages_, GetObservedSymbolsResponse) # <<>>

(***************************************************************************)
(* Properties of the pump's switch on the header.                          *)
(***************************************************************************)
\* The pump reads a header.
HeaderIsRead == rx # NoStream /\ rx.pc = "header" /\ rx'.pc # "header"

\* C31: when the pump has read a whole discriminant that is not one the
\* bridge decodes, it inserts nothing: no queue is created or changed, no
\* null entry is stored and no null message is dereferenced.
C31_UnknownKindChangesNoQueue ==
    [][(/\ HeaderIsRead
        /\ rx'.header.size = SizeOfMessageType
        /\ rx'.header.kind \notin {PlotBufferRequest, GetObservedSymbolsResponse})
           => /\ received_messages_' = received_messages_
              /\ rx'.pc # "crashed"]_vars

\* C32: the pump switches on a discriminant only after all of its
\* sizeof(MessageType) bytes were read from the socket: the header it
\* dispatched on was never filled in part only.
C32_HeaderReadWhole ==
    (rx # NoStream /\ rx.header # NoHeader) =>
        rx.header.size = SizeOfMessageType

(***************************************************************************)
(* Properties of the connection's state.                                   *)
(***************************************************************************)
\* C33: the operations that send, fetch, pump and tick run only while a
\* client is connected: whatever the host calls on its handle, and whenever,
\* no assert(client_ != nullptr) fails and no operation uses a null client_.
C33_OperationsOnlyWhenConnected ==
    pc \notin {"assert_failed", "null_client_used"}

(***************************************************************************)
(* Properties of the periodic tick.                                        *)
(***************************************************************************)
\* C34: with the tick repeated fairly, every PlotBufferRequest frame that
\* has arrived at the bridge is in the end passed to the plot callback with
\* its name (for a superseded request, by the call for the later request of
\* the same name): no name stays owed for ever.
C34_ArrivedRequestIsPlotted ==
    (rx # NoStream /\ codec.owed # {}) ~> (rx # NoStream /\ codec.owed = {})

(***************************************************************************)
(* Properties of the writer after send().                                  *)
(***************************************************************************)
\* C35: when send() has returned the writer holds no pushed block, so that
\* a second send() on it would write nothing.
C35_SendLeavesNoBlocks ==
    composer.pc = "done" => composer.message_blocks_ = <<>>

(***************************************************************************)
(* Properties of get_observed_symbols as a whole.                          *)
(***************************************************************************)
\* The call is in progress: it is in fetch_message's pump or second lookup.
InGetObservedSymbols == last.op = "get_observed_symbols" /\ pc \in {"pump", "lookup"}

\* The call returns, at once on a hit or after the second lookup.
GetObservedSymbolsReturns ==
    /\ CallsGetObservedSymbols \/ InGetObservedSymbols
    /\ pc' = "idle"

\* C36: get_observed_symbols has two outcomes and neither is an error: it
\* returns the dequeued GetObservedSymbolsResponse, or, when none is queued
\* after the one pump of fetch_message, an empty list; no exception is
\* raised, and the call has sent exactly one GetObservedSymbols frame.
C36_ResponseOrEmptyAfterOneRequest ==
    /\ [][CallsGetObservedSymbols =>
              to_viewer' = Append(to_viewer, [kind |-> GetObservedSymbols,
                                              req |-> req_sent + 1])]_vars
    /\ [][InGetObservedSymbols =>
              /\ req_sent' = req_sent
              /\ \/ to_viewer' = to_viewer
                 \/ to_viewer # <<>> /\ to_viewer' = Tail(to_viewer)]_vars
    /\ [][GetObservedSymbolsReturns =>
              /\ ret'.req = req_sent'
              /\ IF ResponseQueue = <<>> THEN ret'.msg = NoMsg
                 ELSE /\ ret'.msg = Head(ResponseQueue)
                      /\ ret'.msg.kind = GetObservedSymbolsResponse
              /\ last'.pumps <= 1
              /\ entry'.op = "oid_get_observed_buffers"
              /\ entry'.raised = "none"]_vars

\* The host's second call returned the first response the bridge ever
\* decoded: its first call had returned the empty list.
C36_Witness ==
    /\ pc = "idle" /\ last.op = "get_observed_symbols"
    /\ entry.op = "oid_get_observed_buffers" /\ entry.returned
    /\ entry.raised = "none"
    /\ req_sent = 2 /\ ret.req = 2
    /\ ret.msg # NoMsg /\ ret.msg.seq = 1

(***************************************************************************)
(* Properties of the viewer's set of synchronised variables.               *)
(***************************************************************************)
\* C37: loaded_vars_ holds exactly the variable names of the
\* PlotBufferContents frames decoded after the most recently decoded
\* SetAvailableSymbols frame: SetAvailableSymbols empties it,
\* PlotBufferContents adds that frame's name, nothing else changes it.
C37_LoadedSinceLastSymbols ==
    codec.pc \in {"buffered", "loop"} => codec.viewer.loaded_vars_ = codec.since

\* Two buffers were loaded, a SetAvailableSymbols frame came, and one
\* buffer has been loaded again since: the other is held but not loaded.
C37_Witness ==
    /\ codec.pc = "loop" /\ codec.header = PlotBufferContents
    /\ codec.viewer.loaded_vars_ = {<<97>>}
    /\ DOMAIN codec.viewer.held_buffers_ = {<<97>>, <<97, 0>>}

\* C38: whenever oid_plot_buffer reaches its length check with dimensions
\* that are all positive, the expected size it compares the buffer with is
\* the mathematical product stride * height * channels * sizeof(element
\* type): no product wraps around to a smaller number.
C38_ExpectedSizeIsTheProduct ==
    (/\ composer.pc = "returned"
     /\ composer.exit \in {"short_buffer", "normal"}
     /\ composer.input.row_stride > 0
     /\ composer.input.height > 0
     /\ composer.input.channels > 0) =>
        buff_size_expected(composer.input.row_stride, composer.input.height,
                           composer.input.channels, composer.input.type,
                           composer.input.ub)
            = TrueSize(composer.input)
====
